---- MODULE Spec2Model ----
(***************************************************************************)
(* A model of the darksky-api forecast service: the Flask route handler   *)
(* forecast() of darksky-api.py, the NOAA adapter NOAAWeatherAPI.get, the  *)
(* Climacell adapter ClimacellWeatherAPI.get and the helpers of            *)
(* DarkskyAPIFunctions.py.                                                  *)
(*                                                                         *)
(* Python values are modelled as follows.  A dict is a function whose      *)
(* domain is the set of its keys, so that "k in d" is k \in DOMAIN d and   *)
(* "del d[k]" restricts the domain; the empty dict {} is EmptyDict.  The   *)
(* value False returned by an adapter is FalseVal.  A float parsed from     *)
(* the URL is [kind, v] with v in hundredths of a degree.  Times are UNIX  *)
(* timestamps in seconds.  An exception that leaves forecast() is the      *)
(* outcome "raise"; Flask answers it with status 500.                      *)
(***************************************************************************)
EXTENDS Integers, Sequences, FiniteSets, TLC

(***************************************************************************)
(* Bounds of the model                                                     *)
(***************************************************************************)
\* number of periods of NOAA's hourly forecast that have not ended
MaxHours == 2
\* largest number of periods in NOAA's daily forecast
MaxPeriods == 2
\* largest number of features in NOAA's alerts feed
MaxAlerts == 1
\* the Climacell daily forecast holds MIN_DAYS - 1 .. MIN_DAYS + 1 + MaxExtraDays days
MaxExtraDays == 0

(***************************************************************************)
(* Program constants                                                       *)
(***************************************************************************)
HOUR == 3600
DAY == 86400
MIN_DAYS == 8
MAX_HOURLY == 48
LAT_MIN == 1900
LAT_MAX == 6500
LON_MIN == -16200
LON_MAX == -6700

\* local midnight of the day of the requests, and the clock during them
Today == 10 * DAY
Now == Today + (10 * HOUR) + 1800
ThisHour == Today + (10 * HOUR)

EmptyDict == [k \in {} |-> 0]
FalseVal == [False |-> TRUE]
NoFile == [exists |-> FALSE]

\* Python truthiness of an adapter's return value (False or a non-empty dict)
Truthy(v) == v # FalseVal /\ v # EmptyDict

\* del d[k]
DelKey(d, k) == [x \in (DOMAIN d) \ {k} |-> d[x]]

\* d[k] = v on a dict d
SetKey(d, k, v) == [x \in (DOMAIN d) \cup {k} |-> IF x = k THEN v ELSE d[x]]

\* list(range(start, stop, step)) for a positive step
PyRange(start, stop, step) ==
    IF start >= stop THEN << >>
    ELSE [i \in 1..(((stop - start) + (step - 1)) \div step) |-> start + ((i - 1) * step)]

(***************************************************************************)
(* DarkskyAPIFunctions.getKeyValue on JSON values.  A JSON value is null,  *)
(* a number, a text, a list or a dict; the texts and keys used are single  *)
(* characters, so that the substring test "key in text" is an equality.    *)
(*  The result is the value returned, or the *)
(* exception raised by an expression of the function.                      *)
(***************************************************************************)
JNone == [t |-> "null"]
JInt(n) == [t |-> "int", n |-> n]
JStr(s) == [t |-> "str", s |-> s]
JList(items) == [t |-> "list", items |-> items]
JDict(m) == [t |-> "dict", m |-> m]

\* a key of a key_list: a field name or an integer index
K(s) == [int |-> FALSE, s |-> s]
I(i) == [int |-> TRUE, i |-> i]

\* bool(value)
JTruthy(x) ==
    CASE x.t = "null" -> FALSE
      [] x.t = "int" -> x.n # 0
      [] x.t = "str" -> x.s # ""
      [] x.t = "list" -> Len(x.items) > 0
      [] x.t = "dict" -> DOMAIN x.m # {}

\* len(value); int and None have no len()
JLen(x) ==
    CASE x.t = "list" -> Len(x.items)
      [] x.t = "dict" -> Cardinality(DOMAIN x.m)
      [] x.t = "str" -> 1
      [] OTHER -> 0

Returned(value) == [raised |-> FALSE, value |-> value]
Raised == [raised |-> TRUE, value |-> JNone]

\* dictionary_element[key] for an integer key: a list counts a negative index
\* from its end, a dict has no integer keys
JIndex(x, i) ==
    CASE x.t = "list" ->
            IF i >= 0 /\ i < Len(x.items) THEN Returned(x.items[i + 1])
            ELSE IF i < 0 /\ i >= - Len(x.items) THEN Returned(x.items[Len(x.items) + i + 1])
            ELSE Raised
      [] x.t = "str" -> IF i \in {0, -1} THEN Returned(x) ELSE Raised
      [] OTHER -> Raised

\* lines 61-72: the for loop over key_list
RECURSIVE WalkKeys(_, _)
WalkKeys(dictionary_element, key_list) ==
    IF key_list = << >> THEN Returned(dictionary_element)
    ELSE LET key == Head(key_list)
         IN  IF key.int
             THEN IF dictionary_element.t \in {"null", "int"} THEN Raised
                  ELSE IF key.i < JLen(dictionary_element)
                  THEN IF JIndex(dictionary_element, key.i).raised THEN Raised
                       ELSE WalkKeys(JIndex(dictionary_element, key.i).value, Tail(key_list))
                  ELSE Returned(JNone)
             ELSE CASE dictionary_element.t \in {"null", "int"} -> Raised
                    [] dictionary_element.t = "dict" ->
                          IF key.s \in DOMAIN dictionary_element.m
                          THEN WalkKeys(dictionary_element.m[key.s], Tail(key_list))
                          ELSE Returned(JNone)
                    [] dictionary_element.t = "list" ->
                          IF \E j \in 1..Len(dictionary_element.items) :
                                dictionary_element.items[j] = JStr(key.s)
                          THEN Raised
                          ELSE Returned(JNone)
                    [] dictionary_element.t = "str" ->
                          IF dictionary_element.s = key.s THEN Raised ELSE Returned(JNone)

\* lambda x: round((x * 9 / 5) + 32, 2), on multiples of 5 degrees
CtoF(x) == JInt(((x.n * 9) \div 5) + 32)

\* the argument func: None, or the lambda that converts to Fahrenheit
NoFunc == "None"
Fahrenheit == "lambda x: round((x * 9 / 5) + 32, 2)"

\* func(value)
Call(func, x) == IF func = Fahrenheit THEN CtoF(x) ELSE x

\* lines 42-74: func is applied to a truthy value only
getKeyValue(dictionary_element, key_list, func) ==
    LET found == WalkKeys(dictionary_element, key_list)
    IN  IF found.raised THEN Raised
        ELSE IF JTruthy(found.value) /\ func # NoFunc THEN Returned(Call(func, found.value))
        ELSE Returned(found.value)

(***************************************************************************)
(* The request URL: geolocation.split(',') and float()                     *)
(***************************************************************************)
Num(v) == [kind |-> "num", v |-> v]
NaN == [kind |-> "nan", v |-> 0]
Text == [kind |-> "text", v |-> 0]

\* float(s) raises ValueError on text; 'nan' parses to the float NaN
FloatParses(tok) == tok.kind # "text"

\* a > b and a < b on floats: every comparison with NaN is false
FloatGT(a, b) == a.kind = "num" /\ a.v > b
FloatLT(a, b) == a.kind = "num" /\ a.v < b

\* the geolocation strings requested: gsplit is the list of the parts
Geolocations ==
    { << Text >>,
      << Num(3000), Num(-10000), Num(0) >>,
      << Text, Num(-10000) >>,
      << Num(LAT_MIN - 1), Num(-10000) >>,
      << Num(LAT_MAX + 1), Num(-10000) >>,
      << Num(3000), Num(LON_MIN - 1) >>,
      << Num(3000), Num(LON_MAX + 1) >>,
      << Num(LAT_MIN), Num(LON_MIN) >>,
      << Num(LAT_MAX), Num(LON_MAX) >>,
      << NaN, Num(-10000) >> }

\* lines 59-75 of forecast(): 400 or the parsed latitude, longitude
ParseGeolocation(gsplit) ==
    IF Len(gsplit) # 2 THEN [status |-> 400]
    ELSE IF ~ (FloatParses(gsplit[1]) /\ FloatParses(gsplit[2])) THEN [status |-> 400]
    ELSE IF FloatGT(gsplit[1], LAT_MAX) \/ FloatLT(gsplit[1], LAT_MIN) THEN [status |-> 400]
    ELSE IF FloatGT(gsplit[2], LON_MAX) \/ FloatLT(gsplit[2], LON_MIN) THEN [status |-> 400]
    ELSE [status |-> 0, latitude |-> gsplit[1], longitude |-> gsplit[2]]

(***************************************************************************)
(* Upstream responses.  getURL returns the JSON payload ("ok"), returns    *)
(* False on a status other than 200 ("fail"), or lets the exception of     *)
(* requests.get through on a network error ("raise").                      *)
(***************************************************************************)
FetchOutcomes == {"ok", "fail", "raise"}

\* getURL: the value the caller sees, or the exception
getURL(outcome) ==
    IF outcome = "ok" THEN [raised |-> FALSE, value |-> "json"]
    ELSE IF outcome = "fail" THEN [raised |-> FALSE, value |-> "False"]
    ELSE [raised |-> TRUE, value |-> "None"]

\* future.result() inside try/except: an exception becomes None
FutureResult(outcome) == IF getURL(outcome).raised THEN "None" ELSE getURL(outcome).value

\* "if not obj: return False" after each mandatory future
FetchUsable(outcome) == FutureResult(outcome) = "json"

\* the periods of NOAA's hourly forecast: n consecutive hours in ascending
\* order, the first `past` of which have already ended
HourlyPeriods(n, past, icon) ==
    [i \in 1..n |-> [startTime |-> ThisHour + ((i - 1 - past) * HOUR),
                     endTime |-> ThisHour + ((i - past) * HOUR),
                     icon |-> icon]]

\* dailyEpochTime(startTime) of the periods of NOAA's daily forecast: a day
\* and a night period per date; skew is the difference between the server's
\* midnight and the location's midnight
DailyPeriodDates(n, night, skew) ==
    [i \in 1..n |-> Today + skew + (DAY * (((i - 1) + (IF night THEN 1 ELSE 0)) \div 2))]

\* the temperature in degrees Celsius that the observation station and the
\* gridpoint forecast report, and the token of the icon URLs: one that is in
\* noaa_icon_list, one that is not, and a URL from which no token is parsed
Celsius == {-5, 0, 5}
IconTokens == {"rain", "unlisted", "unparsable"}
UsualReadings == { << 5, "rain" >> }

\* the features of NOAA's alerts feed
AlertPool == { [expires |-> e, UGC |-> << "C1" >>] : e \in {Now - 1, Now, Now + 1} }
RECURSIVE SeqsUpTo(_, _)
SeqsUpTo(S, n) ==
    IF n = 0 THEN { << >> }
    ELSE SeqsUpTo(S, n - 1) \cup { Append(s, x) : s \in { t \in SeqsUpTo(S, n - 1) : Len(t) = n - 1 }, x \in S }

\* the payloads of the hourly, daily and alerts feeds and the outcomes of
\* the three optional fetches
NOAAFeeds(maxAlerts, readings) ==
    { [nHours |-> h[1], past |-> h[2], nPeriods |-> d[1], night |-> d[2], skew |-> d[3],
       alerts |-> a[1], features |-> a[2], counties |-> c, zones |-> z,
       celsius |-> r[1], icon |-> r[2]] :
        r \in readings,
        h \in { << 0, 0 >>, << MaxHours, 0 >>, << MaxHours + 1, 1 >> },
        d \in { x \in (0..MaxPeriods) \X BOOLEAN \X {0, HOUR} :
                  /\ (x[1] = 0 => (~ x[2] /\ x[3] = 0))
                  /\ (x[3] # 0 => (~ x[2] /\ x[1] = MaxPeriods)) },
        a \in ({"ok"} \X SeqsUpTo(AlertPool, maxAlerts)) \cup { << "fail", << >> >> },
        c \in {"ok", "fail"}, z \in {"ok", "fail"} }

NoFeeds ==
    [nHours |-> 0, past |-> 0, nPeriods |-> 0, night |-> FALSE, skew |-> 0,
     alerts |-> "fail", features |-> << >>, counties |-> "fail", zones |-> "fail",
     celsius |-> 5, icon |-> "rain"]

Upstream(points, stations, mandatory, feeds) ==
    [points |-> points, stations |-> stations, current |-> mandatory[1],
     hourly |-> mandatory[2], griddata |-> mandatory[3], daily |-> mandatory[4],
     feeds |-> feeds]

AllOk == << "ok", "ok", "ok", "ok" >>

\* what NOAA can answer to one request: the payloads matter only when every
\* fetch before them has succeeded
NOAAUpstreamsOf(maxAlerts, readings) ==
    { Upstream(p, "ok", AllOk, NoFeeds) : p \in FetchOutcomes \ {"ok"} }
    \cup { Upstream("ok", s, AllOk, NoFeeds) : s \in FetchOutcomes \ {"ok"} }
    \cup { Upstream("ok", "ok", m, NoFeeds) :
             m \in (FetchOutcomes \X FetchOutcomes \X FetchOutcomes \X FetchOutcomes) \ {AllOk} }
    \cup { Upstream("ok", "ok", AllOk, f) : f \in NOAAFeeds(maxAlerts, readings) }

\* the answers explored while requests are served, and the longer alert
\* feeds explored for NOAAWeatherAPI.get on its own
NOAAUpstreams == NOAAUpstreamsOf(MaxAlerts, UsualReadings)
NOAAUpstreamsAlone == NOAAUpstreamsOf(MaxAlerts + 1, Celsius \X IconTokens)

(***************************************************************************)
(* NOAAWeatherAPI.get                                                      *)
(***************************************************************************)
\* lines 98-115 of _mapIcons: the icon of a token of noaa_icon_list, and ''
\* for a token that is not listed or a URL without a token
NOAAmapIcons(icon) == IF icon = "rain" THEN "rain" ELSE ""

\* lines 324-341 and 475-480: the hourly skeleton, the first 48 periods
\* whose end time is later than now, in the order of the feed
RECURSIVE HourlySkeleton(_, _)
HourlySkeleton(hours, hourly_data) ==
    IF hours = << >> \/ Len(hourly_data) >= MAX_HOURLY THEN hourly_data
    ELSE IF Head(hours).endTime > Now
         THEN HourlySkeleton(Tail(hours),
                  Append(hourly_data, [time |-> Head(hours).startTime,
                                       summary |-> "noaa",
                                       icon |-> NOAAmapIcons(Head(hours).icon)]))
         ELSE HourlySkeleton(Tail(hours), hourly_data)

\* (mutant of ScanSlots: the scan ends at the first slot after the start of the
\* interval)
RECURSIVE ScanSlots_BreakAtStart(_, _, _, _, _)
ScanSlots_BreakAtStart(hourly_data, interval, key, value, i) ==
    IF i > Len(hourly_data) THEN hourly_data
    ELSE LET time == hourly_data[i].time
             written == IF time >= interval.start /\ time < interval.end
                        THEN [hourly_data EXCEPT ![i] = SetKey(hourly_data[i], key, value)]
                        ELSE hourly_data
         IN  IF time > interval.start THEN written
             ELSE ScanSlots_BreakAtStart(written, interval, key, value, i + 1)

\* lines 387-391, the loop every quantity repeats: "for i in
\* range(len(hourly_data))" writes the value into the slots inside the
\* interval and breaks at the first slot later than the end of the interval
RECURSIVE ScanSlots(_, _, _, _, _)
ScanSlots(hourly_data, interval, key, value, i) ==
    IF i > Len(hourly_data) THEN hourly_data
    ELSE LET time == hourly_data[i].time
             written == IF time >= interval.start /\ time < interval.end
                        THEN [hourly_data EXCEPT ![i] = SetKey(hourly_data[i], key, value)]
                        ELSE hourly_data
         IN  IF time > interval.end THEN written
             ELSE ScanSlots(written, interval, key, value, i + 1)

\* the value written for a sample of the gridpoint forecast: line 389 for a
\* temperature, lines 348-349 for an amount of precipitation, spread over the
\* hours of its interval (amounts are in hundredths of an inch)
GridValue(key, sample) ==
    IF key = "precipIntensity"
    THEN JInt(sample.value \div ((sample.end - sample.start) \div HOUR))
    \* line 419: round(humidity['value'] / 100, 2), in hundredths
    ELSE IF key = "humdity" THEN JInt(sample.value)
    ELSE CtoF(JInt(sample.value))

\* lines 383-391: "for temp in temperatures" over the samples of a quantity, in
\* the order of the feed
RECURSIVE Overlay(_, _, _)
Overlay(hourly_data, samples, key) ==
    IF samples = << >> THEN hourly_data
    ELSE Overlay(ScanSlots(hourly_data, Head(samples), key, GridValue(key, Head(samples)), 1),
                 Tail(samples), key)

\* lines 362-370: the loop of the snowfall amounts, which keeps the larger of
\* the intensity already in the slot and its own
RECURSIVE ScanSnow(_, _, _, _)
ScanSnow(hourly_data, interval, perhour, i) ==
    IF i > Len(hourly_data) THEN hourly_data
    ELSE LET time == hourly_data[i].time
             slot == hourly_data[i]
             written == IF time >= interval.start /\ time < interval.end
                        THEN IF "precipIntensity" \in DOMAIN slot
                             THEN IF perhour.n > slot.precipIntensity.n
                                  THEN [hourly_data EXCEPT ![i] = SetKey(slot, "precipIntensity", perhour)]
                                  ELSE hourly_data
                             ELSE [hourly_data EXCEPT ![i] = SetKey(slot, "precipIntensity", perhour)]
                        ELSE hourly_data
         IN  IF time > interval.end THEN written
             ELSE ScanSnow(written, interval, perhour, i + 1)

\* lines 356-370: "for snow in snowamounts"
RECURSIVE OverlaySnow(_, _)
OverlaySnow(hourly_data, snowamounts) ==
    IF snowamounts = << >> THEN hourly_data
    ELSE OverlaySnow(ScanSnow(hourly_data, Head(snowamounts),
                              GridValue("precipIntensity", Head(snowamounts)), 1),
                     Tail(snowamounts))

\* the dew point in degrees Celsius and the relative humidity in percent that
\* the observation station and the gridpoint forecast report
GridDewpoint == 3
GridHumidity == 50

\* lines 383-421: the temperature, the dew point and the relative humidity of
\* the gridpoint forecast, each with one interval that covers every hour; the
\* keys are those of lines 389, 409 and 419
HourlyGrid(hourly_data, celsius) ==
    IF hourly_data = << >> THEN hourly_data
    ELSE LET covering(value) == << [start |-> hourly_data[1].time,
                                    end |-> hourly_data[Len(hourly_data)].time + HOUR,
                                    value |-> value] >>
         IN  Overlay(Overlay(Overlay(hourly_data, covering(celsius), "temperature"),
                             covering(GridDewpoint), "dewpoint"),
                     covering(GridHumidity), "humdity")

\* lines 487-542: one entry per period whose date is the next expected day
RECURSIVE DailySkeleton(_, _, _, _)
DailySkeleton(dates, timestamp, daily_data, icon) ==
    IF dates = << >> THEN daily_data
    ELSE IF Head(dates) = timestamp
         THEN DailySkeleton(Tail(dates), timestamp + (HOUR * 24),
                  Append(daily_data, [time |-> timestamp, summary |-> "noaa",
                                      icon |-> NOAAmapIcons(icon),
                                      sunriseTime |-> timestamp + (6 * HOUR),
                                      windSpeed |-> "noaa"]), icon)
         ELSE DailySkeleton(Tail(dates), timestamp, daily_data, icon)

\* lines 545-722: the highest temperature of each day and the means of the dew
\* point, the cloud cover, the wind bearing and the visibility, from the
\* values of the gridpoint forecast
DailyGrid(daily_data, celsius) ==
    [i \in 1..Len(daily_data) |->
        [k \in DOMAIN daily_data[i] \cup
                   {"temperatureHigh", "dewPoint", "windBearing", "cloudCover", "visibility"} |->
            CASE k = "temperatureHigh" -> CtoF(JInt(celsius))
              [] k = "dewPoint" -> "noaa"
              [] k = "windBearing" -> "noaa bearing"
              [] k = "cloudCover" -> "noaa cover"
              [] k = "visibility" -> "noaa visibility"
              [] OTHER -> daily_data[i][k]]]

\* round(n / d) of Python 3 for d > 0: to the nearest integer, a tie to the
\* even one
PyRound(n, d) ==
    LET q == n \div d
        r == n % d
    IN  IF 2 * r < d THEN q
        ELSE IF 2 * r > d THEN q + 1
        ELSE IF q % 2 = 0 THEN q ELSE q + 1

\* line 557: round((temp * 9 / 5) + 32, 2), for a temperature in hundredths of
\* a degree Celsius; the result is in hundredths of a degree Fahrenheit
CtoF100(temp) == JInt(PyRound(temp.n * 9, 5) + 3200)

\* line 513-536: the temperature fields of a new entry of daily_data
NoTemps ==
    [temperatureHigh |-> JNone, temperatureHighTime |-> JNone,
     temperatureLow |-> JNone, temperatureLowTime |-> JNone,
     temperatureMin |-> JNone, temperatureMinTime |-> JNone,
     temperatureMax |-> JNone, temperatureMaxTime |-> JNone]

\* lines 551-568: "for value in props['temperature']['values']" for the day
\* that starts at start; values are [time, value], value a number or null
RECURSIVE DayTemps(_, _, _)
DayTemps(day, values, start) ==
    IF values = << >> THEN day
    ELSE LET timestamp == Head(values).time
             end == start + (3600 * 24)
         IN  IF timestamp >= end THEN day
             ELSE IF Head(values).value = JNone THEN DayTemps(day, Tail(values), start)
             ELSE LET temp == CtoF100(Head(values).value)
                      inside == timestamp >= start /\ timestamp < end
                      high == IF inside /\ (~ JTruthy(day.temperatureHigh)
                                             \/ temp.n > day.temperatureHigh.n)
                              THEN [day EXCEPT !.temperatureHigh = temp,
                                               !.temperatureHighTime = JInt(timestamp),
                                               !.temperatureMax = temp,
                                               !.temperatureMaxTime = JInt(timestamp)]
                              ELSE day
                      low == IF inside /\ (~ JTruthy(high.temperatureLow)
                                            \/ temp.n < high.temperatureLow.n)
                             THEN [high EXCEPT !.temperatureLow = temp,
                                               !.temperatureLowTime = JInt(timestamp),
                                               !.temperatureMin = temp,
                                               !.temperatureMinTime = JInt(timestamp)]
                             ELSE high
                  IN  DayTemps(low, Tail(values), start)

\* lines 645-656 and 663-675: total and total_hours after "for value in
\* props[...]['values']"; the loop of the wind speed adds the hours to
\* total_hours a second time, whether the value is null or not (line 675)
RECURSIVE DayTotals(_, _, _, _, _)
DayTotals(key, values, start, total, total_hours) ==
    IF values = << >> THEN [total |-> total, total_hours |-> total_hours]
    ELSE LET interval == Head(values)
             end == start + (3600 * 24)
             istart == IF interval.start < start THEN start ELSE interval.start
             iend == IF interval.end > end THEN end ELSE interval.end
             hours == (iend - istart) \div 3600
         IN  IF interval.end > start /\ interval.start <= end
             THEN LET counted == IF interval.value # JNone
                                 THEN [total |-> total + (interval.value.n * hours),
                                       total_hours |-> total_hours + hours]
                                 ELSE [total |-> total, total_hours |-> total_hours]
                  IN  DayTotals(key, Tail(values), start, counted.total,
                                IF key = "windSpeed" THEN counted.total_hours + hours
                                ELSE counted.total_hours)
             ELSE DayTotals(key, Tail(values), start, total, total_hours)

\* line 658: round(total / total_hours), degrees; line 677: round(total /
\* total_hours * 2.23694, 2), metres per second to hundredths of a mile per hour
DayUnits(key, total, total_hours) ==
    IF key = "windSpeed" THEN JInt(PyRound(total * 223694, total_hours * 1000))
    ELSE JInt(PyRound(total, total_hours))

\* lines 643-658 and 661-677: the daily value of the quantity, None when
\* total_hours is 0
DayAverage(key, values, start) ==
    LET sums == DayTotals(key, values, start, 0, 0)
    IN  IF sums.total_hours > 0 THEN DayUnits(key, sums.total, sums.total_hours) ELSE JNone

\* lines 296-309: the temperature of the current observations
Currently(celsius) ==
    LET props == JDict([temperature |-> JDict([value |-> JInt(celsius)]),
                        dewpoint |-> JDict([value |-> JInt(GridDewpoint)])])
        temp == getKeyValue(props, << K("temperature"), K("value") >>, NoFunc).value
        dew == getKeyValue(props, << K("dewpoint"), K("value") >>, NoFunc).value
    IN  [summary |-> "noaa",
         temperature |-> getKeyValue(props, << K("temperature"), K("value") >>, Fahrenheit).value,
         dewPoint |-> getKeyValue(props, << K("dewpoint"), K("value") >>, Fahrenheit).value,
         humidity |-> IF JTruthy(temp) /\ JTruthy(dew)
                      THEN JInt(100 - (5 * (temp.n - dew.n)))
                      ELSE JNone]

\* lines 279-289: the area names by area code
noaa_county_list(up) ==
    [c \in (IF up.feeds.counties = "ok" THEN {"C1"} ELSE {}) \cup
           (IF up.feeds.zones = "ok" THEN {"Z1"} ELSE {}) |->
        IF c = "C1" THEN "County1" ELSE "Zone1"]

\* (mutant of AlertActive: expired alerts are not filtered out)
AlertActive_All(alert) == TRUE

\* line 749: an alert is kept when its expires is later than now
AlertActive(alert) == alert.expires > Now

\* lines 742-768: the alerts that have not expired, with their area names;
\* noaa_county_list[county_id] raises KeyError on an unknown code
AlertsRaise(up) ==
    /\ up.feeds.alerts = "ok"
    /\ \E i \in 1..Len(up.feeds.features) :
          /\ AlertActive(up.feeds.features[i])
          /\ \E j \in 1..Len(up.feeds.features[i].UGC) :
                up.feeds.features[i].UGC[j] \notin DOMAIN noaa_county_list(up)

alert_data(up) ==
    LET kept == SelectSeq(up.feeds.features, AlertActive)
    IN  [i \in 1..Len(kept) |->
            [expires |-> kept[i].expires,
             regions |-> [j \in 1..Len(kept[i].UGC) |-> noaa_county_list(up)[kept[i].UGC[j]]]]]

\* lines 156-170 and 292-773: the document assembled once every mandatory
\* fetch has succeeded
NOAAAssemble(latitude, longitude, up) ==
    LET hourly_data ==
            HourlyGrid(HourlySkeleton(HourlyPeriods(up.feeds.nHours, up.feeds.past, up.feeds.icon),
                                      << >>), up.feeds.celsius)
        daily_data ==
            DailyGrid(DailySkeleton(DailyPeriodDates(up.feeds.nPeriods, up.feeds.night, up.feeds.skew),
                                    Today, << >>, up.feeds.icon), up.feeds.celsius)
    IN  [latitude |-> latitude,
         longitude |-> longitude,
         currently |-> Currently(up.feeds.celsius),
         minutely |-> EmptyDict,
         hourly |-> IF Len(hourly_data) > 0
                    THEN [summary |-> hourly_data[1].summary, icon |-> hourly_data[1].icon,
                          data |-> hourly_data]
                    ELSE EmptyDict,
         daily |-> IF Len(daily_data) > 0
                   THEN [summary |-> daily_data[1].summary, icon |-> daily_data[1].icon,
                         data |-> daily_data]
                   ELSE EmptyDict,
         alerts |-> IF up.feeds.alerts = "ok" /\ up.feeds.features # << >> THEN alert_data(up) ELSE << >>,
         flags |-> [sources |-> [type |-> "tuple", items |-> << "noaa" >>], units |-> "us"]]

NOAAFanOut == {"current", "hourly", "griddata", "daily", "alerts", "counties", "zones"}

\* NOAAWeatherAPI.get: ret is "doc" (a document), "False" (unavailable) or
\* "raise" (an exception leaves get); fetched are the requests issued and
\* failed is the mandatory fetch whose failure ended the call
NOAAGet(latitude, longitude, up) ==
    IF getURL(up.points).raised
    THEN [ret |-> "raise", doc |-> FalseVal, fetched |-> {"points"}, failed |-> "points"]
    ELSE IF getURL(up.points).value = "False"
    THEN [ret |-> "False", doc |-> FalseVal, fetched |-> {"points"}, failed |-> "points"]
    ELSE IF getURL(up.stations).raised
    THEN [ret |-> "raise", doc |-> FalseVal, fetched |-> {"points", "stations"}, failed |-> "stations"]
    ELSE IF getURL(up.stations).value = "False"
    \* line 186: flask.abort(501), and flask is not imported in this file
    THEN [ret |-> "raise", doc |-> FalseVal, fetched |-> {"points", "stations"}, failed |-> "stations"]
    ELSE LET fetched == {"points", "stations"} \cup NOAAFanOut
         IN  IF ~ FetchUsable(up.current)
             THEN [ret |-> "False", doc |-> FalseVal, fetched |-> fetched, failed |-> "current"]
             ELSE IF ~ FetchUsable(up.hourly)
             THEN [ret |-> "False", doc |-> FalseVal, fetched |-> fetched, failed |-> "hourly"]
             ELSE IF ~ FetchUsable(up.griddata)
             THEN [ret |-> "False", doc |-> FalseVal, fetched |-> fetched, failed |-> "griddata"]
             ELSE IF ~ FetchUsable(up.daily)
             THEN [ret |-> "False", doc |-> FalseVal, fetched |-> fetched, failed |-> "daily"]
             ELSE IF AlertsRaise(up)
             THEN [ret |-> "raise", doc |-> FalseVal, fetched |-> fetched, failed |-> "none"]
             ELSE [ret |-> "doc", doc |-> NOAAAssemble(latitude, longitude, up),
                   fetched |-> fetched, failed |-> "none"]

(***************************************************************************)
(* ClimacellWeatherAPI.get                                                 *)
(***************************************************************************)
\* the hourly forecast of Climacell: n consecutive hours from the current
\* hour (first = 0) or from the next one (first = 1)
CCHourly(n, first, code) ==
    [i \in 1..n |-> [time |-> ThisHour + (((first + i) - 1) * HOUR), code |-> code]]

\* the daily forecast of Climacell: n consecutive days, the first one
\* `first` days after today
CCDaily(n, first, code, wind_speed) ==
    [i \in 1..n |-> [date |-> Today + (((first + i) - 1) * DAY), code |-> code,
                     wind_speed |-> wind_speed]]

\* the weather_code of the samples: one that is in the tables of the two
\* mappers and one that is not
WeatherCodes == {"clear", "unlisted"}

\* minute is the first minute of the nowcast, counted from now; wind_speed
\* tells whether the days of the daily forecast carry the field wind_speed.
\* An unlisted code and days without wind_speed are delivered with forecasts
\* long enough for every skeleton.
CCFeedsOf(minutes) ==
    { f \in [nHours : 1..(MaxHours + 1), firstHour : 0..1,
             nDays : (MIN_DAYS - 1)..(MIN_DAYS + 1 + MaxExtraDays), firstDay : -1..1,
             code : WeatherCodes, minute : minutes, wind_speed : BOOLEAN] :
        (f.code # "clear" \/ ~ f.wind_speed) =>
            /\ f.nHours = MaxHours + 1 /\ f.firstHour = 0
            /\ f.nDays = MIN_DAYS + 1 + MaxExtraDays /\ f.firstDay = 0 }

CCFeeds == CCFeedsOf({1})

NoCCFeeds ==
    [nHours |-> 1, firstHour |-> 0, nDays |-> MIN_DAYS, firstDay |-> 0,
     code |-> "clear", minute |-> 1, wind_speed |-> TRUE]

CCUpstream(outcomes, feeds) ==
    [current |-> outcomes[1], minutely |-> outcomes[2], hourly |-> outcomes[3],
     daily |-> outcomes[4], feeds |-> feeds]

\* what Climacell can answer to one request
CCUpstreams ==
    { CCUpstream(m, NoCCFeeds) :
        m \in (FetchOutcomes \X FetchOutcomes \X FetchOutcomes \X FetchOutcomes) \ {AllOk} }
    \cup { CCUpstream(AllOk, f) : f \in CCFeeds }

\* lines 76-83 of _mapIcons: the icon of a listed code; for any other code the
\* message is formatted with noaa_icon, a name that is not defined
CCmapIcons(icon) ==
    IF icon = "clear" THEN [raised |-> FALSE, value |-> "clear-day"]
    ELSE [raised |-> TRUE, value |-> ""]

\* lines 119-125 of _mapClimacellWeatherCode: the phrase of a listed code; for
\* any other code the warning is logged with flask_app, a name that is not
\* defined in the function
mapClimacellWeatherCode(code) ==
    IF code = "clear" THEN [raised |-> FALSE, value |-> "Clear"]
    ELSE [raised |-> TRUE, value |-> ""]

\* lines 262-263: the summary and the icon of the current observations
CodeRaises(cc) ==
    mapClimacellWeatherCode(cc.feeds.code).raised \/ CCmapIcons(cc.feeds.code).raised

\* the temperature and the daily maximum that Climacell reports, in degrees Fahrenheit
CCTemp == JInt(50)
CCTempMax == JInt(60)

\* the dew point in degrees Fahrenheit and the humidity, round(x / 100, 2) in
\* hundredths, of the hours of Climacell
CCDewPoint == JInt(40)
CCHumidity == JInt(70)

CCFanOut == {"cc_current", "cc_minutely", "cc_hourly", "cc_daily"}

\* lines 232-249: the document built when no input document was passed
CCNewOutput(latitude, longitude) ==
    [latitude |-> latitude,
     longitude |-> longitude,
     currently |-> EmptyDict,
     minutely |-> EmptyDict,
     hourly |-> EmptyDict,
     daily |-> EmptyDict,
     flags |-> [sources |-> [type |-> "list", items |-> << >>], units |-> "us"]]

\* getKeyValue(output, [section, 'data']) followed by "if not data or
\* len(data) == 0": the list in place, or None
SectionData(output, section) ==
    IF "data" \in DOMAIN output[section] THEN output[section].data ELSE << >>

\* lines 318-324: range(timestamp + (timestamp + (3600 * 48)), 3600) is
\* range(start, stop) with a step of 1
HourlySynthesized ==
    LET r == PyRange(ThisHour + (ThisHour + (HOUR * 48)), HOUR, 1)
    IN  [i \in 1..Len(r) |-> [time |-> r[i]]]

\* lines 372-379: range(timestamp + (timestamp + (86400 * 8)), 86400)
DailySynthesized ==
    LET r == PyRange(Today + (Today + (DAY * 8)), DAY, 1)
    IN  [i \in 1..Len(r) |-> [time |-> r[i]]]

\* lines 477-483 and 487-493: "for t in cc_day['humidity']" sets total to 0 for
\* every element t, adds its min and its max, and stores round(total /
\* len(cc_day['humidity']), 2); the result is in hundredths, None when the
\* list is empty
RECURSIVE DayMinMax(_, _, _)
DayMinMax(samples, i, stored) ==
    IF i > Len(samples) THEN stored
    ELSE LET t == samples[i]
             withMin == IF "min" \in DOMAIN t THEN 0 + t["min"] ELSE 0
             total == IF "max" \in DOMAIN t THEN withMin + t["max"] ELSE withMin
         IN  DayMinMax(samples, i + 1, JInt(PyRound(total * 100, Len(samples))))

\* (mutant of DailyPad: the timestamp is not advanced from one placeholder to the next)
DailyPad_SameDay(daily_data) ==
    IF Len(daily_data) < MIN_DAYS
    THEN [i \in 1..MIN_DAYS |->
            IF i <= Len(daily_data) THEN daily_data[i]
            ELSE [time |-> daily_data[Len(daily_data)].time + DAY]]
    ELSE daily_data

\* (mutant of DailyPad: a short list is left as it is)
DailyPad_Unpadded(daily_data) == daily_data

\* lines 383-389: pad to 8 days, continuing from the last entry; on an empty
\* list daily_data[len(daily_data) - 1] raises IndexError
DailyPadRaises(daily_data) == Len(daily_data) = 0

DailyPad(daily_data) ==
    IF Len(daily_data) < MIN_DAYS
    THEN [i \in 1..MIN_DAYS |->
            IF i <= Len(daily_data) THEN daily_data[i]
            ELSE [time |-> daily_data[Len(daily_data)].time + ((i - Len(daily_data)) * DAY)]]
    ELSE daily_data

\* lines 392-395: the index of the first Climacell day used
RECURSIVE AlignCtr(_, _, _, _)
AlignCtr(cc_daily_obj, first_time, i, ctr) ==
    IF i > Len(cc_daily_obj) THEN ctr
    ELSE IF cc_daily_obj[ctr + 1].date < first_time
         THEN AlignCtr(cc_daily_obj, first_time, i + 1, ctr + 1)
         ELSE AlignCtr(cc_daily_obj, first_time, i + 1, ctr)

\* getKeyValue(day, [key]) on a daily entry: the value, or None
DayValue(day, key) == IF key \in DOMAIN day THEN day[key] ELSE "None"

\* lines 398-501: every entry is rebuilt from the Climacell day at ctr, ctr + 1, ...;
\* cc_daily_obj[ctr] raises IndexError past the end of the list
DailyFillRaises(daily_data, cc_daily_obj, ctr) ==
    \/ ctr + Len(daily_data) > Len(cc_daily_obj)
    \* line 496: cc_day['wind_speed'] raises KeyError on a day without that field
    \/ \E i \in 1..Len(daily_data) : ~ cc_daily_obj[ctr + i].wind_speed

DailyFill(daily_data, cc_daily_obj, ctr) ==
    [i \in 1..Len(daily_data) |->
        [time |-> daily_data[i].time,
         summary |-> mapClimacellWeatherCode(cc_daily_obj[ctr + i].code).value,
         icon |-> CCmapIcons(cc_daily_obj[ctr + i].code).value,
         sunriseTime |-> cc_daily_obj[ctr + i].date + (6 * HOUR),
         temperatureHigh |-> CCTempMax,
         dewPoint |-> "None",
         windSpeed |-> DayValue(daily_data[i], "windSpeed"),
         windBearing |-> DayValue(daily_data[i], "windBearing"),
         cloudCover |-> DayValue(daily_data[i], "cloudCover"),
         visibility |-> DayValue(daily_data[i], "visibility")]]

\* (mutant of HourlyMerge: the Climacell hours replace the skeleton)
HourlyMerge_Replace(hourly_data, cc_hourly_obj) ==
    [i \in 1..Len(cc_hourly_obj) |->
        [time |-> cc_hourly_obj[i].time, summary |-> "cc", icon |-> "cc"]]

\* lines 327-352: slot i is rebuilt from the i-th Climacell hour when the
\* timestamps are equal; cc_hourly_obj[i] raises IndexError on a short list
HourlyMergeRaises(hourly_data, cc_hourly_obj) == Len(hourly_data) > Len(cc_hourly_obj)

HourlyMerge(hourly_data, cc_hourly_obj) ==
    [i \in 1..Len(hourly_data) |->
        IF hourly_data[i].time = cc_hourly_obj[i].time
        THEN [time |-> hourly_data[i].time,
              summary |-> mapClimacellWeatherCode(cc_hourly_obj[i].code).value,
              icon |-> CCmapIcons(cc_hourly_obj[i].code).value,
              temperature |-> CCTemp,
              dewPoint |-> CCDewPoint,
              humidity |-> CCHumidity]
        ELSE hourly_data[i]]

\* lines 519-525: getKeyValue(input_dictionary, ['flags', 'sources']) evaluates
\* 'flags' in False when there is no input document, a TypeError
SourcesRaises(input_dictionary) == ~ Truthy(input_dictionary)

Sources(input_dictionary) ==
    [type |-> "list", items |-> Append(input_dictionary.flags.sources.items, "climacell")]

\* (mutant of Minutely: the nowcast replaces the minute data in place)
Minutely_Always(output, cc) ==
    [summary |-> "None", icon |-> "None",
     data |-> << [time |-> Now + (60 * cc.feeds.minute)] >>]

\* lines 286-308: the nowcast is used only when there is no minute data yet
Minutely(output, cc) ==
    IF SectionData(output, "minutely") = << >>
    THEN [summary |-> "None", icon |-> "None",
          data |-> << [time |-> Now + (60 * cc.feeds.minute)] >>]
    ELSE output.minutely

\* lines 356-359: the summary of the first hour, set while the slots are merged
WithFirstHour(section, hourly_data) ==
    IF Len(hourly_data) > 0
    THEN SetKey(SetKey(section, "summary", hourly_data[1].summary), "icon", hourly_data[1].icon)
    ELSE section

\* (mutant of CCAssemble: without an input document the daily skeleton is built from
\* today and the sources are read from the new document)
CCAssemble_FromScratch(latitude, longitude, input_dictionary, cc) ==
    LET output == IF Truthy(input_dictionary) THEN input_dictionary
                  ELSE CCNewOutput(latitude, longitude)
        cc_hourly_obj == CCHourly(cc.feeds.nHours, cc.feeds.firstHour, cc.feeds.code)
        cc_daily_obj == CCDaily(cc.feeds.nDays, cc.feeds.firstDay, cc.feeds.code, cc.feeds.wind_speed)
        hourly_in == IF SectionData(output, "hourly") = << >> THEN HourlySynthesized
                     ELSE SectionData(output, "hourly")
        from_scratch == PyRange(Today, Today + (DAY * 8), DAY)
        daily_in == IF SectionData(output, "daily") = << >>
                    THEN [i \in 1..Len(from_scratch) |-> [time |-> from_scratch[i]]]
                    ELSE SectionData(output, "daily")
    IN  IF CodeRaises(cc) THEN [ret |-> "raise", doc |-> FalseVal]
        ELSE IF HourlyMergeRaises(hourly_in, cc_hourly_obj) THEN [ret |-> "raise", doc |-> FalseVal]
        ELSE IF DailyPadRaises(daily_in) THEN [ret |-> "raise", doc |-> FalseVal]
        ELSE LET padded == DailyPad(daily_in)
                 ctr == AlignCtr(cc_daily_obj, padded[1].time, 1, 0)
             IN  IF DailyFillRaises(padded, cc_daily_obj, ctr) THEN [ret |-> "raise", doc |-> FalseVal]
                 ELSE LET hourly_data == HourlyMerge(hourly_in, cc_hourly_obj)
                          daily_data == DailyFill(padded, cc_daily_obj, ctr)
                      IN  [ret |-> "doc",
                           doc |-> [k \in DOMAIN output |->
                              CASE k = "currently" ->
                                     [summary |-> mapClimacellWeatherCode(cc.feeds.code).value,
                                      temperature |-> CCTemp]
                                [] k = "minutely" -> WithFirstHour(Minutely(output, cc), hourly_data)
                                [] k = "hourly" -> SetKey(WithFirstHour(output.hourly, hourly_data),
                                                          "data", hourly_data)
                                [] k = "daily" -> SetKey(SetKey(SetKey(output.daily,
                                                      "summary", daily_data[1].summary),
                                                      "icon", daily_data[1].icon),
                                                      "data", daily_data)
                                [] k = "flags" -> [sources |-> Sources(output), units |-> "us"]
                                [] OTHER -> output[k]]]

\* lines 228-527: the steps after the four results have arrived.  A step that
\* raises ends the call with the exception.
CCAssemble(latitude, longitude, input_dictionary, cc) ==
    LET output == IF Truthy(input_dictionary) THEN input_dictionary
                  ELSE CCNewOutput(latitude, longitude)
        cc_hourly_obj == CCHourly(cc.feeds.nHours, cc.feeds.firstHour, cc.feeds.code)
        cc_daily_obj == CCDaily(cc.feeds.nDays, cc.feeds.firstDay, cc.feeds.code, cc.feeds.wind_speed)
        hourly_in == IF SectionData(output, "hourly") = << >> THEN HourlySynthesized
                     ELSE SectionData(output, "hourly")
        daily_in == IF SectionData(output, "daily") = << >> THEN DailySynthesized
                    ELSE SectionData(output, "daily")
    IN  IF CodeRaises(cc) THEN [ret |-> "raise", doc |-> FalseVal]
        ELSE IF HourlyMergeRaises(hourly_in, cc_hourly_obj) THEN [ret |-> "raise", doc |-> FalseVal]
        ELSE IF DailyPadRaises(daily_in) THEN [ret |-> "raise", doc |-> FalseVal]
        ELSE LET padded == DailyPad(daily_in)
                 ctr == AlignCtr(cc_daily_obj, padded[1].time, 1, 0)
             IN  IF DailyFillRaises(padded, cc_daily_obj, ctr) THEN [ret |-> "raise", doc |-> FalseVal]
                 ELSE IF SourcesRaises(input_dictionary) THEN [ret |-> "raise", doc |-> FalseVal]
                 ELSE LET hourly_data == HourlyMerge(hourly_in, cc_hourly_obj)
                          daily_data == DailyFill(padded, cc_daily_obj, ctr)
                      IN  [ret |-> "doc",
                           doc |-> [k \in DOMAIN output |->
                              CASE k = "currently" ->
                                     [summary |-> mapClimacellWeatherCode(cc.feeds.code).value,
                                      temperature |-> CCTemp]
                                [] k = "minutely" -> WithFirstHour(Minutely(output, cc), hourly_data)
                                [] k = "hourly" -> SetKey(WithFirstHour(output.hourly, hourly_data),
                                                          "data", hourly_data)
                                [] k = "daily" -> SetKey(SetKey(SetKey(output.daily,
                                                      "summary", daily_data[1].summary),
                                                      "icon", daily_data[1].icon),
                                                      "data", daily_data)
                                [] k = "flags" -> [sources |-> Sources(input_dictionary), units |-> "us"]
                                [] OTHER -> output[k]]]

\* (mutant of CCUnavailable: the input document is dropped)
CCUnavailable_False(input_dictionary) == FalseVal

\* lines 180-226: the value returned when a result is unusable
CCUnavailable(input_dictionary) ==
    IF Truthy(input_dictionary) THEN input_dictionary ELSE FalseVal

\* ClimacellWeatherAPI.get: ret is "doc" (doc is the value returned, a
\* document or False) or "raise"; failed is the fetch whose failure ended
\* the call
CCGet(latitude, longitude, input_dictionary, cc) ==
    IF ~ FetchUsable(cc.current)
    THEN [ret |-> "doc", doc |-> CCUnavailable(input_dictionary), failed |-> "cc_current"]
    ELSE IF ~ FetchUsable(cc.minutely)
    THEN [ret |-> "doc", doc |-> CCUnavailable(input_dictionary), failed |-> "cc_minutely"]
    ELSE IF ~ FetchUsable(cc.hourly)
    THEN [ret |-> "doc", doc |-> CCUnavailable(input_dictionary), failed |-> "cc_hourly"]
    ELSE IF ~ FetchUsable(cc.daily)
    THEN [ret |-> "doc", doc |-> CCUnavailable(input_dictionary), failed |-> "cc_daily"]
    ELSE [ret |-> CCAssemble(latitude, longitude, input_dictionary, cc).ret,
          doc |-> CCAssemble(latitude, longitude, input_dictionary, cc).doc,
          failed |-> "none"]

(***************************************************************************)
(* darksky-api.py: forecast()                                              *)
(***************************************************************************)
\* json.dump / json.dumps followed by json.load: a tuple is written as a list
ToJSON(doc) == [doc EXCEPT !.flags.sources.type = "list"]

\* (mutant of StripAlerts: an empty alerts list is kept)
StripAlerts_Keep(output) == output

\* lines 88-90: an empty alerts list is removed
StripAlerts(output) ==
    IF "alerts" \in DOMAIN output
    THEN IF Len(output.alerts) = 0 THEN DelKey(output, "alerts") ELSE output
    ELSE output

\* the responses NOAA and Climacell give for the coordinates of the URL: a
\* point that is not a number is answered with an error status
NOAAAnswers(latitude, longitude) ==
    IF latitude.kind = "num" /\ longitude.kind = "num" THEN NOAAUpstreams
    ELSE { up \in NOAAUpstreams : up.points = "fail" }

CCAnswers(latitude, longitude) ==
    IF latitude.kind = "num" /\ longitude.kind = "num" THEN CCUpstreams
    ELSE { cc \in CCUpstreams : cc.current = "fail" }

\* (mutant of CacheExists: the cached copy is never found)
CacheExists_Never(file) == FALSE

\* line 94: os.path.exists(cached_copy_filename)
CacheExists(file) == file.exists

(***************************************************************************)
(* The cached copy written by requests that finalize concurrently.  The   *)
(* file is a sequence of chunks, the units in which the buffered file      *)
(* object of json.dump reaches the file; every request writes through its  *)
(* own file object, at its own offset.                                     *)
(***************************************************************************)
\* the requests that finalize concurrently
Writers == {1, 2}

\* the largest number of chunks of a document
MaxChunks == 2

\* json.dump(output, f) of request w, a document of n chunks
DocOf(w, n) == [i \in 1..n |-> [request |-> w, part |-> i, of |-> n]]

\* the bytes between the end of the file and the offset of a later write
Hole == [request |-> 0, part |-> 0, of |-> 0]

\* write(2) of one chunk at the offset pos of the writing file object
WriteAt(chunks, pos, chunk) ==
    [i \in 1..(IF pos > Len(chunks) THEN pos ELSE Len(chunks)) |->
        IF i = pos THEN chunk
        ELSE IF i <= Len(chunks) THEN chunks[i]
        ELSE Hole]

NoRequest == [latitude |-> Text, longitude |-> Text]
NoResponse == [status |-> 0, body |-> FalseVal]
NoRun == [ret |-> "none"]
NoFan == [pc |-> "idle"]

VARIABLES
    pc,             \* where forecast() is: "idle", "noaa", "climacell", "respond"
    gsplit,         \* geolocation.split(',') of the last request
    request,        \* latitude, longitude of the request being answered
    noaa_output,    \* the value NOAAWeatherAPI.get returned at line 78
    output,         \* the variable output of forecast()
    cache,          \* the file darksky-api.cached_output
    response,       \* the status and body of the answer to the last request
    fetched,        \* the upstream requests issued for this request
    noaa_ret,       \* how NOAAWeatherAPI.get ended: "none", "doc", "False", "raise"
    noaa_failed,    \* the fetch that ended NOAAWeatherAPI.get, or "none"
    cc_ret,         \* how ClimacellWeatherAPI.get ended: "none", "doc", "False", "raise"
    cc_failed,      \* the fetch that ended ClimacellWeatherAPI.get, or "none"
    cache_read,     \* this request has read the cache file
    cache_written,  \* this request has written the cache file
    last_finalized, \* the body of the last response built from fresh output
    noaa_up,        \* NOAAWeatherAPI.get on its own: what NOAA answered
    noaa_res,       \* NOAAWeatherAPI.get on its own: how the call ended
    cc_res,         \* ClimacellWeatherAPI.get on its own: its input and how it ended
    kv_call,        \* getKeyValue on its own: the arguments and the result
    file,           \* concurrent requests: the chunks of darksky-api.cached_output
    writer,         \* concurrent requests: where each request is in lines 92-93
    closed,         \* concurrent requests: the requests in the order they finished writing
    reader,         \* concurrent requests: what the request of lines 94-98 has read
    fan,            \* the fan-out of an adapter: its futures and where the adapter is
    step            \* a step of an adapter run on its own: its inputs and its result

\* the variables of forecast()
mainVars == << pc, gsplit, request, noaa_output, output, cache, response, fetched, noaa_ret,
               noaa_failed, cc_ret, cc_failed, cache_read, cache_written, last_finalized >>

\* the variables of the functions called on their own
aloneVars == << noaa_up, noaa_res, cc_res, kv_call, file, writer, closed, reader >>

\* the variables of the requests that finalize concurrently
raceVars == << file, writer, closed, reader >>

\* the variables of the fan-out and of the steps of the adapters run on their own
laterVars == << fan, step >>

vars == << pc, gsplit, request, noaa_output, output, cache, response, fetched, noaa_ret,
           noaa_failed, cc_ret, cc_failed, cache_read, cache_written, last_finalized,
           noaa_up, noaa_res, cc_res, kv_call, file, writer, closed, reader, fan, step >>

Init ==
    /\ pc = "idle"
    /\ gsplit = << >>
    /\ request = NoRequest
    /\ noaa_output = FalseVal
    /\ output = FalseVal
    /\ cache = NoFile
    /\ response = NoResponse
    /\ fetched = {}
    /\ noaa_ret = "none"
    /\ noaa_failed = "none"
    /\ cc_ret = "none"
    /\ cc_failed = "none"
    /\ cache_read = FALSE
    /\ cache_written = FALSE
    /\ last_finalized = FalseVal
    /\ noaa_up = Upstream("ok", "ok", AllOk, NoFeeds)
    /\ noaa_res = NoRun
    /\ cc_res = NoRun
    /\ kv_call = NoRun
    /\ file = [exists |-> FALSE, chunks |-> << >>]
    /\ writer = [w \in Writers |-> [pc |-> "ready", doc |-> 0, offset |-> 0]]
    /\ closed = << >>
    /\ reader = NoRun
    /\ fan = NoFan
    /\ step = NoRun

\* lines 55-75: a request arrives and its latitude,longitude are verified
Request(g) ==
    /\ pc = "idle"
    /\ gsplit' = g
    /\ noaa_output' = FalseVal
    /\ output' = FalseVal
    /\ fetched' = {}
    /\ noaa_ret' = "none"
    /\ noaa_failed' = "none"
    /\ cc_ret' = "none"
    /\ cc_failed' = "none"
    /\ cache_read' = FALSE
    /\ cache_written' = FALSE
    /\ IF ParseGeolocation(g).status = 400
       THEN /\ pc' = "idle"
            /\ request' = NoRequest
            /\ response' = [status |-> 400, body |-> FalseVal]
       ELSE /\ pc' = "noaa"
            /\ request' = [latitude |-> ParseGeolocation(g).latitude,
                           longitude |-> ParseGeolocation(g).longitude]
            /\ response' = NoResponse
    /\ UNCHANGED << cache, last_finalized, aloneVars, laterVars >>

\* an exception leaves forecast(): Flask answers with status 500
Unhandled ==
    /\ pc' = "idle"
    /\ response' = [status |-> 500, body |-> FalseVal]

\* line 78: output = NOAAWeatherAPI.get(latitude, longitude, ...)
NOAAStep ==
    /\ pc = "noaa"
    /\ \E up \in NOAAAnswers(request.latitude, request.longitude) :
          LET r == NOAAGet(request.latitude, request.longitude, up)
          IN  /\ fetched' = fetched \cup r.fetched
              /\ noaa_ret' = r.ret
              /\ noaa_failed' = r.failed
              /\ noaa_output' = r.doc
              /\ output' = r.doc
              /\ IF r.ret = "raise" THEN Unhandled
                 ELSE pc' = "climacell" /\ UNCHANGED response
    /\ UNCHANGED << gsplit, request, cache, cc_ret, cc_failed, cache_read, cache_written,
                    last_finalized, aloneVars, laterVars >>

\* line 81: output = ClimacellWeatherAPI.get(latitude, longitude, apikey, input_dictionary=output)
CCStep ==
    /\ pc = "climacell"
    /\ \E cc \in CCAnswers(request.latitude, request.longitude) :
          LET r == CCGet(request.latitude, request.longitude, output, cc)
          IN  /\ fetched' = fetched \cup CCFanOut
              /\ cc_ret' = IF r.ret = "raise" THEN "raise"
                           ELSE IF Truthy(r.doc) THEN "doc" ELSE "False"
              /\ cc_failed' = r.failed
              /\ output' = r.doc
              /\ IF r.ret = "raise" THEN Unhandled
                 ELSE pc' = "respond" /\ UNCHANGED response
    /\ UNCHANGED << gsplit, request, noaa_output, cache, noaa_ret, noaa_failed, cache_read,
                    cache_written, last_finalized, aloneVars, laterVars >>

\* (mutant of Respond: the copy is cached before the empty alerts list is removed)
Respond_CacheFirst ==
    /\ pc = "respond"
    /\ pc' = "idle"
    /\ IF Truthy(output)
       THEN /\ output' = StripAlerts(output)
            /\ cache' = [exists |-> TRUE, content |-> ToJSON(output)]
            /\ cache_written' = TRUE
            /\ response' = [status |-> 200, body |-> ToJSON(StripAlerts(output))]
            /\ last_finalized' = ToJSON(StripAlerts(output))
            /\ UNCHANGED cache_read
       ELSE IF CacheExists(cache)
       THEN /\ output' = cache.content
            /\ cache_read' = TRUE
            /\ response' = [status |-> 200, body |-> ToJSON(cache.content)]
            /\ UNCHANGED << cache, cache_written, last_finalized >>
       ELSE /\ response' = [status |-> 502, body |-> FalseVal]
            /\ UNCHANGED << output, cache, cache_read, cache_written, last_finalized >>
    /\ UNCHANGED << gsplit, request, noaa_output, fetched, noaa_ret, noaa_failed, cc_ret,
                    cc_failed, aloneVars, laterVars >>

\* lines 85-113: the output is cached and sent, or the cached copy is sent, or 502
Respond ==
    /\ pc = "respond"
    /\ pc' = "idle"
    /\ IF Truthy(output)
       THEN /\ output' = StripAlerts(output)
            /\ cache' = [exists |-> TRUE, content |-> ToJSON(StripAlerts(output))]
            /\ cache_written' = TRUE
            /\ response' = [status |-> 200, body |-> ToJSON(StripAlerts(output))]
            /\ last_finalized' = ToJSON(StripAlerts(output))
            /\ UNCHANGED cache_read
       ELSE IF CacheExists(cache)
       THEN /\ output' = cache.content
            /\ cache_read' = TRUE
            /\ response' = [status |-> 200, body |-> ToJSON(cache.content)]
            /\ UNCHANGED << cache, cache_written, last_finalized >>
       ELSE /\ response' = [status |-> 502, body |-> FalseVal]
            /\ UNCHANGED << output, cache, cache_read, cache_written, last_finalized >>
    /\ UNCHANGED << gsplit, request, noaa_output, fetched, noaa_ret, noaa_failed, cc_ret,
                    cc_failed, aloneVars, laterVars >>

Next ==
    \/ \E g \in Geolocations : Request(g)
    \/ NOAAStep
    \/ CCStep
    \/ Respond

Spec == Init /\ [][Next]_vars

(***************************************************************************)
(* NOAAWeatherAPI.get on its own, for every answer NOAA can give           *)
(***************************************************************************)
NOAARun ==
    /\ noaa_res = NoRun
    /\ \E up \in NOAAUpstreamsAlone :
          /\ noaa_up' = up
          /\ noaa_res' = NOAAGet(Num(LAT_MIN), Num(LON_MIN), up)
    /\ UNCHANGED << mainVars, cc_res, kv_call, raceVars, laterVars >>

\* the caller has taken the result
NOAAReturn ==
    /\ noaa_res # NoRun
    /\ noaa_up' = Upstream("ok", "ok", AllOk, NoFeeds)
    /\ noaa_res' = NoRun
    /\ UNCHANGED << mainVars, cc_res, kv_call, raceVars, laterVars >>

NOAANext == NOAARun \/ NOAAReturn

NOAASpec == Init /\ [][NOAANext]_vars

(***************************************************************************)
(* ClimacellWeatherAPI.get on its own: called on a document of             *)
(* NOAAWeatherAPI.get or without a document, and called again on what it   *)
(* returned.  The second call is made within the hour: Climacell answers   *)
(* the same forecasts, and a nowcast that may start a minute later.        *)
(***************************************************************************)
\* the documents NOAAWeatherAPI.get returns, and no document
CCInputs ==
    {FalseVal} \cup
    { NOAAGet(Num(LAT_MIN), Num(LON_MIN), up).doc :
        up \in { u \in NOAAUpstreams : NOAAGet(Num(LAT_MIN), Num(LON_MIN), u).ret = "doc" } }

\* the nowcasts of the second call
Minutes == {1, 2}

CCRun ==
    /\ cc_res = NoRun
    /\ \E input \in CCInputs, cc \in CCUpstreams, minute \in Minutes :
          LET again == [cc EXCEPT !.feeds.minute = minute]
              first == CCGet(Num(LAT_MIN), Num(LON_MIN), input, cc)
          IN  cc_res' = [input |-> input, cc |-> cc, first |-> first, again |-> again,
                         second |-> IF first.ret = "doc"
                                    THEN CCGet(Num(LAT_MIN), Num(LON_MIN), first.doc, again)
                                    ELSE [ret |-> "none", doc |-> FalseVal, failed |-> "none"]]
    /\ UNCHANGED << mainVars, noaa_up, noaa_res, kv_call, raceVars, laterVars >>

\* the caller has taken the results
CCReturn ==
    /\ cc_res # NoRun
    /\ cc_res' = NoRun
    /\ UNCHANGED << mainVars, noaa_up, noaa_res, kv_call, raceVars, laterVars >>

CCNext == CCRun \/ CCReturn

CCSpec == Init /\ [][CCNext]_vars

(***************************************************************************)
(* DarkskyAPIFunctions.getKeyValue on its own                              *)
(***************************************************************************)
\* the root structures: a document with a nested dict, a list, a null, a zero
\* and a text; a list; an empty dict; and the values None and 5
Roots ==
    { JDict([a |-> JDict([b |-> JInt(7)]),
             l |-> JList(<< JInt(1), JStr("x") >>),
             n |-> JNone,
             z |-> JInt(0),
             s |-> JStr("x")]),
      JList(<< JDict([a |-> JInt(3)]), JInt(2) >>),
      JDict(EmptyDict),
      JNone,
      JInt(5) }

\* the keys of the key lists: field names, and indexes inside and outside the lists
Keys == { K("a"), K("b"), K("l"), K("n"), K("s"), K("x"), I(0), I(1), I(2), I(-1), I(-3) }

\* the longest key list
MaxKeys == 2

KeyLists == SeqsUpTo(Keys, MaxKeys)

KVRun ==
    /\ kv_call = NoRun
    /\ \E root \in Roots, key_list \in KeyLists :
          kv_call' = [dictionary_element |-> root, key_list |-> key_list,
                      result |-> getKeyValue(root, key_list, NoFunc)]
    /\ UNCHANGED << mainVars, noaa_up, noaa_res, cc_res, raceVars, laterVars >>

\* the caller has taken the result
KVReturn ==
    /\ kv_call # NoRun
    /\ kv_call' = NoRun
    /\ UNCHANGED << mainVars, noaa_up, noaa_res, cc_res, raceVars, laterVars >>

KVNext == KVRun \/ KVReturn

KVSpec == Init /\ [][KVNext]_vars

(***************************************************************************)
(* Lines 85-98 of forecast() in requests that run concurrently: two        *)
(* requests finalize, a third one reads the cached copy.                   *)
(***************************************************************************)
\* line 92: open(cached_copy_filename, 'w') creates or truncates the file
OpenForWrite(w) ==
    /\ writer[w].pc = "ready"
    /\ \E n \in 1..MaxChunks :
          writer' = [writer EXCEPT ![w] = [pc |-> "writing", doc |-> n, offset |-> 0]]
    /\ file' = [exists |-> TRUE, chunks |-> << >>]
    /\ UNCHANGED << mainVars, noaa_up, noaa_res, cc_res, kv_call, closed, reader, laterVars >>

\* line 93: json.dump(output, f) fills the buffer of f, which is written to the
\* file as one chunk
WriteChunk(w) ==
    /\ writer[w].pc = "writing"
    /\ writer[w].offset + 1 < writer[w].doc
    /\ file' = [file EXCEPT !.chunks =
                    WriteAt(file.chunks, writer[w].offset + 1,
                            DocOf(w, writer[w].doc)[writer[w].offset + 1])]
    /\ writer' = [writer EXCEPT ![w].offset = writer[w].offset + 1]
    /\ UNCHANGED << mainVars, noaa_up, noaa_res, cc_res, kv_call, closed, reader, laterVars >>

\* the end of the with block of lines 92-93: the rest of the buffer is written
\* as the last chunk and the file is closed
CloseFile(w) ==
    /\ writer[w].pc = "writing"
    /\ writer[w].offset + 1 = writer[w].doc
    /\ file' = [file EXCEPT !.chunks =
                    WriteAt(file.chunks, writer[w].doc, DocOf(w, writer[w].doc)[writer[w].doc])]
    /\ writer' = [writer EXCEPT ![w] = [pc |-> "closed", doc |-> writer[w].doc,
                                        offset |-> writer[w].doc]]
    /\ closed' = Append(closed, w)
    /\ UNCHANGED << mainVars, noaa_up, noaa_res, cc_res, kv_call, reader, laterVars >>

\* lines 94-98: the file exists and json.load reads it
ReadSnapshot ==
    /\ reader = NoRun
    /\ file.exists
    /\ reader' = [content |-> file.chunks]
    /\ UNCHANGED << mainVars, noaa_up, noaa_res, cc_res, kv_call, file, writer, closed, laterVars >>

RaceNext ==
    \/ \E w \in Writers : OpenForWrite(w)
    \/ \E w \in Writers : WriteChunk(w)
    \/ \E w \in Writers : CloseFile(w)
    \/ ReadSnapshot

RaceSpec == Init /\ [][RaceNext]_vars

(***************************************************************************)
(* The fan-out of the adapters: the fetches submitted to the               *)
(* ThreadPoolExecutor of the with block run in worker threads while get()  *)
(* takes the results of the futures in the order of the code.              *)
(***************************************************************************)
\* the futures in the order get() takes their results, and how many of them
\* are mandatory (NOAA: lines 225-277, Climacell: lines 180-226)
Futures(adapter) ==
    IF adapter = "noaa"
    THEN << "current", "hourly", "griddata", "daily", "alerts", "counties", "zones" >>
    ELSE << "current", "minutely", "hourly", "daily" >>

Mandatory(adapter) == 4

Adapters == {"noaa", "climacell"}

\* (mutant of ShutdownWaits: the executor is left without waiting)
ShutdownWaits_NoWait(status) == TRUE

\* the end of the with block, ThreadPoolExecutor.__exit__: shutdown(wait=True)
\* returns once every submitted fetch has ended
ShutdownWaits(status) == \A b \in DOMAIN status : status[b] # "running"

\* executor.submit(functions.getURL, ...) for every fetch of the adapter
Submit(adapter) ==
    /\ fan.pc = "idle"
    /\ fan' = [pc |-> "collect", adapter |-> adapter, pos |-> 1, ret |-> "none",
               status |-> [b \in 1..Len(Futures(adapter)) |-> "running"]]
    /\ UNCHANGED << mainVars, aloneVars, step >>

\* getURL ends in a worker thread: it returns the payload or False, or
\* requests.get raises
FetchEnds(b, outcome) ==
    /\ fan.pc # "idle"
    /\ b \in DOMAIN fan.status
    /\ fan.status[b] = "running"
    /\ fan' = [fan EXCEPT !.status[b] = outcome]
    /\ UNCHANGED << mainVars, aloneVars, step >>

\* future.result() of the next future inside try/except, then "if not obj:
\* return False" for a mandatory fetch; result() blocks until the fetch ends
Collect ==
    /\ fan.pc = "collect"
    /\ fan.status[fan.pos] # "running"
    /\ IF fan.pos <= Mandatory(fan.adapter) /\ ~ FetchUsable(fan.status[fan.pos])
       THEN fan' = [fan EXCEPT !.pc = "exit", !.ret = "unavailable"]
       ELSE IF fan.pos = Len(Futures(fan.adapter))
       THEN fan' = [fan EXCEPT !.pc = "exit", !.ret = "proceed"]
       ELSE fan' = [fan EXCEPT !.pos = fan.pos + 1]
    /\ UNCHANGED << mainVars, aloneVars, step >>

\* control leaves the with block, by a return inside it or at its end
LeaveWith ==
    /\ fan.pc = "exit"
    /\ ShutdownWaits(fan.status)
    /\ fan' = [fan EXCEPT !.pc = "left"]
    /\ UNCHANGED << mainVars, aloneVars, step >>

\* get() returns, or goes on to assemble the document; the next call starts
\* from an idle adapter
FanDone ==
    /\ fan.pc = "left"
    /\ fan' = NoFan
    /\ UNCHANGED << mainVars, aloneVars, step >>

FanNext ==
    \/ \E adapter \in Adapters : Submit(adapter)
    \/ \E b \in 1..Len(Futures("noaa")), outcome \in FetchOutcomes : FetchEnds(b, outcome)
    \/ Collect
    \/ LeaveWith
    \/ FanDone

FanSpec == Init /\ [][FanNext]_vars

(***************************************************************************)
(* The grid overlay of NOAAWeatherAPI.get on its own: the loops of lines   *)
(* 343-472 on an hourly skeleton and the samples of a quantity             *)
(***************************************************************************)
\* the longest list of samples of a quantity
MaxIntervals == 2

\* the hours of the skeleton and of the intervals
GridTimes == { ThisHour + (h * HOUR) : h \in 0..3 }

\* the hourly skeletons: slots in ascending order of time, as lines 324-341
\* build them from the periods of the hourly forecast
Skeletons ==
    { [i \in 1..Len(times) |-> [time |-> times[i]]] :
        times \in { t \in SeqsUpTo(GridTimes, Cardinality(GridTimes)) :
                       \A i \in 1..(Len(t) - 1) : t[i] < t[i + 1] } }

\* the samples of a quantity: an interval [start, end) and a value
SamplesOf(values) ==
    { x \in [start : GridTimes, end : { t + HOUR : t \in GridTimes }, value : values] :
        x.start < x.end }

\* temperatures in degrees Celsius; amounts of precipitation in hundredths of
\* an inch
Temperatures == {0, 5}
Amounts == {12, 24}

\* lines 383-391 on a skeleton and a list of temperature samples
OverlayRun ==
    /\ step = NoRun
    /\ \E hourly_data \in Skeletons, samples \in SeqsUpTo(SamplesOf(Temperatures), MaxIntervals) :
          step' = [op |-> "overlay", hourly_data |-> hourly_data, samples |-> samples,
                   snowamounts |-> << >>, key |-> "temperature",
                   result |-> Overlay(hourly_data, samples, "temperature")]
    /\ UNCHANGED << mainVars, aloneVars, fan >>

\* lines 343-370 on a skeleton, a list of amounts of precipitation and a list
\* of amounts of snowfall
SnowRun ==
    /\ step = NoRun
    /\ \E hourly_data \in Skeletons, quantities \in SeqsUpTo(SamplesOf(Amounts), 1),
          snowamounts \in SeqsUpTo(SamplesOf(Amounts), 1) :
          step' = [op |-> "snow", hourly_data |-> hourly_data, samples |-> quantities,
                   snowamounts |-> snowamounts, key |-> "precipIntensity",
                   result |-> OverlaySnow(Overlay(hourly_data, quantities, "precipIntensity"),
                                          snowamounts)]
    /\ UNCHANGED << mainVars, aloneVars, fan >>

\* the caller has taken the result of the step
StepReturn ==
    /\ step # NoRun
    /\ step' = NoRun
    /\ UNCHANGED << mainVars, aloneVars, fan >>

GridNext == OverlayRun \/ SnowRun \/ StepReturn

GridSpec == Init /\ [][GridNext]_vars

(***************************************************************************)
(* The daily aggregation of NOAAWeatherAPI.get on its own: the loops of    *)
(* lines 546-714 for the day that starts today, on the samples of a        *)
(* quantity of the gridpoint forecast                                      *)
(***************************************************************************)
\* the longest list of samples of a quantity of a day
MaxSamples == 2

\* the start times of the temperature samples: three hours of the day and the
\* first hour of the next day
SampleTimes == { Today + (h * HOUR) : h \in {0, 1, 2, 24} }

\* temperatures in hundredths of a degree Celsius: -17.78 C is 0 F
Hundredths == { JInt(-2000), JInt(-1778), JInt(0), JNone }

\* the temperature samples of the feed, in ascending order of time
TempSamples ==
    UNION { [1..Len(times) -> Hundredths] \X {times} :
              times \in { t \in SeqsUpTo(SampleTimes, MaxSamples + 1) :
                            \A i \in 1..(Len(t) - 1) : t[i] < t[i + 1] } }

\* lines 546-568 for the first day
TempsRun ==
    /\ step = NoRun
    /\ \E x \in TempSamples :
          LET values == [i \in 1..Len(x[2]) |-> [time |-> x[2][i], value |-> x[1][i]]]
          IN  step' = [op |-> "temps", values |-> values, start |-> Today,
                       key |-> "temperature",
                       result |-> DayTemps(NoTemps, values, Today)]
    /\ UNCHANGED << mainVars, aloneVars, fan >>

\* the intervals of the averaged quantities: they start the hour before the
\* day, in its first hours or with the next day, and last one or two hours
Intervals ==
    { [start |-> Today + (h * HOUR), end |-> Today + ((h + n) * HOUR), value |-> v] :
        h \in {-1, 0, 1, 24}, n \in {1, 2}, v \in {JInt(5), JInt(10), JNone} }

Averaged == {"windBearing", "windSpeed"}

\* lines 643-677 for the first day
AverageRun ==
    /\ step = NoRun
    /\ \E key \in Averaged, values \in SeqsUpTo(Intervals, MaxSamples) :
          step' = [op |-> "average", values |-> values, start |-> Today, key |-> key,
                   result |-> DayAverage(key, values, Today)]
    /\ UNCHANGED << mainVars, aloneVars, fan >>

DailyNext == TempsRun \/ AverageRun \/ StepReturn

DailySpec == Init /\ [][DailyNext]_vars

(***************************************************************************)
(* The humidity and the pressure of a day of ClimacellWeatherAPI.get on    *)
(* their own: the loops of lines 477-493 on the samples of a day           *)
(***************************************************************************)
\* the values of the samples
Readings == {0, 40, 90}

\* an element of cc_day['humidity']: a dict with a min, a max or both
MinMaxEntries ==
    { [k \in {"min"} |-> v] : v \in Readings }
    \cup { [k \in {"max"} |-> v] : v \in Readings }
    \cup { [k \in {"min", "max"} |-> IF k = "min" THEN v[1] ELSE v[2]] : v \in Readings \X Readings }

\* the longest list of elements
MaxEntries == 2

MinMaxRun ==
    /\ step = NoRun
    /\ \E key \in {"humidity", "pressure"}, samples \in SeqsUpTo(MinMaxEntries, MaxEntries) :
          step' = [op |-> "minmax", key |-> key, samples |-> samples,
                   result |-> DayMinMax(samples, 1, JNone)]
    /\ UNCHANGED << mainVars, aloneVars, fan >>

MinMaxNext == MinMaxRun \/ StepReturn

MinMaxSpec == Init /\ [][MinMaxNext]_vars

(***************************************************************************)
(* Properties                                                              *)
(***************************************************************************)
Sections == {"latitude", "longitude", "currently", "minutely", "hourly", "daily", "flags"}

\* the time values of a section's data, << >> when the section has no data
Times(section) ==
    IF "data" \in DOMAIN section
    THEN [i \in 1..Len(section.data) |-> section.data[i].time]
    ELSE << >>

IsPrefix(a, b) == Len(a) <= Len(b) /\ \A i \in 1..Len(a) : a[i] = b[i]

Increasing(times) == \A i \in 1..(Len(times) - 1) : times[i] < times[i + 1]

\* the request has been answered
Answered == pc = "idle" /\ response.status # 0

\* the answer is the cached copy, read from a file this request has not written
FromSnapshot ==
    /\ response.status = 200
    /\ cache_read
    /\ ~ cache_written
    /\ cache.exists
    /\ response.body = cache.content

\* the answer is the document NOAAWeatherAPI.get assembled for this request,
\* as it is or with the sections Climacell rebuilds
FromPrimary ==
    /\ response.status = 200
    /\ noaa_ret = "doc"
    /\ Sections \subseteq DOMAIN response.body
    /\ response.body.latitude = noaa_output.latitude
    /\ response.body.longitude = noaa_output.longitude
    /\ Len(response.body.flags.sources.items) >= 1
    /\ response.body.flags.sources.items[1] = "noaa"
    /\ Times(response.body.hourly) = Times(noaa_output.hourly)
    /\ IsPrefix(Times(noaa_output.daily), Times(response.body.daily))
    /\ IF noaa_output.alerts = << >> THEN "alerts" \notin DOMAIN response.body
       ELSE "alerts" \in DOMAIN response.body /\ response.body.alerts = noaa_output.alerts

C2_SecondaryFailureKeepsPrimary ==
    (noaa_ret = "doc" /\ cc_failed # "none") =>
        /\ pc = "respond" => output = noaa_output
        /\ pc = "idle" =>
              /\ response = [status |-> 200, body |-> ToJSON(StripAlerts(noaa_output))]
              /\ cache = [exists |-> TRUE, content |-> response.body]
              /\ response.body.flags.sources.items = << "noaa" >>

C2_Witness ==
    /\ noaa_ret = "doc"
    /\ cc_failed = "cc_daily"
    /\ Answered
    /\ response.status = 200

\* C3: when both adapters return False, the answer is the content of the cached
\* copy with status 200 if the file exists, and 502 exactly when it does not.
C3_BothUnavailable ==
    (noaa_ret = "False" /\ cc_ret = "False" /\ Answered) =>
        /\ cache.exists => response = [status |-> 200, body |-> cache.content]
        /\ ~ cache.exists => response = [status |-> 502, body |-> FalseVal]
        /\ response.status = 502 <=> ~ cache.exists

C3_Witness ==
    /\ noaa_ret = "False"
    /\ cc_ret = "False"
    /\ Answered
    /\ response.status = 200
    /\ response.body = last_finalized

C5_FetchFailureIsHandled ==
    ((noaa_failed # "none" \/ cc_failed # "none") /\ Answered) => response.status \in {200, 502}

\* the latitude and the longitude of the last request lie in the closed ranges
InBox(g) ==
    /\ g[1].kind = "num" /\ LAT_MIN <= g[1].v /\ g[1].v <= LAT_MAX
    /\ g[2].kind = "num" /\ LON_MIN <= g[2].v /\ g[2].v <= LON_MAX

\* C6 (as stated): a request whose latitude or longitude is not in the closed
\* range is answered 400 with no upstream fetch and no access to the cached
\* copy; a request with both values in range is not answered 400.
C6_OutOfBoxRejected ==
    (Len(gsplit) = 2 /\ FloatParses(gsplit[1]) /\ FloatParses(gsplit[2])) =>
        IF InBox(gsplit) THEN response.status # 400
        ELSE /\ response.status = 400
             /\ pc = "idle"
             /\ fetched = {}
             /\ ~ cache_read
             /\ ~ cache_written

\* C7: in every step, the cached copy, if it exists, is the body of the last
\* answer built from fresh output; it is overwritten with the answer whenever a
\* request is finalized, it changes in no other step (not when a request ends
\* with 400, 500, 502 or the cached copy), and it is read only when neither
\* adapter returned a document.
C7_Step ==
    /\ cache'.exists => cache'.content = last_finalized'
    /\ (pc = "respond" /\ Truthy(output)) =>
          /\ response'.status = 200
          /\ cache' = [exists |-> TRUE, content |-> response'.body]
    /\ (response'.status \in {400, 500, 502} \/ cache_read') => cache' = cache
    /\ cache' # cache => (pc = "respond" /\ Truthy(output))
    /\ cache_read' => (noaa_ret' = "False" /\ cc_ret' = "False" /\ noaa_output' = FalseVal)

C7_SnapshotIsLastFinalized == [][C7_Step]_vars

C7_Witness ==
    /\ Answered
    /\ cache_read
    /\ response.status = 200
    /\ cache.content = last_finalized
    /\ request.latitude # cache.content.latitude

NoEmptyAlerts(doc) == "alerts" \in DOMAIN doc => Len(doc.alerts) > 0

\* C8: no document answered with status 200 and no cached copy holds an alerts
\* key with an empty list.
C8_NoEmptyAlerts ==
    /\ response.status = 200 => NoEmptyAlerts(response.body)
    /\ cache.exists => NoEmptyAlerts(cache.content)

C8_Witness ==
    /\ Answered
    /\ response.status = 200
    /\ noaa_ret = "doc"
    /\ noaa_output.alerts = << >>
    /\ "alerts" \notin DOMAIN response.body
    /\ cache.content = response.body

\* the number of entries of a list of alerts that expire at e
CountExpires(alerts, e) == Cardinality({ i \in 1..Len(alerts) : alerts[i].expires = e })

\* C9: in the document NOAAWeatherAPI.get assembles, no alert has an expires
\* earlier than the time of assembly, and every alert of the feed whose expires
\* is later than that time appears, as often as in the feed.
C9_AlertsFiltered ==
    (noaa_res.ret = "doc" /\ noaa_up.feeds.alerts = "ok") =>
        /\ \A i \in 1..Len(noaa_res.doc.alerts) : ~ (noaa_res.doc.alerts[i].expires < Now)
        /\ \A i \in 1..Len(noaa_up.feeds.features) :
              noaa_up.feeds.features[i].expires > Now =>
                  CountExpires(noaa_res.doc.alerts, noaa_up.feeds.features[i].expires)
                      = CountExpires(noaa_up.feeds.features, noaa_up.feeds.features[i].expires)

C9_Witness ==
    /\ noaa_res.ret = "doc"
    /\ \E i \in 1..Len(noaa_up.feeds.features) : noaa_up.feeds.features[i].expires < Now
    /\ \E i \in 1..Len(noaa_up.feeds.features) : noaa_up.feeds.features[i].expires > Now
    /\ Len(noaa_res.doc.alerts) = 1

SeriesIncreasing(doc) ==
    /\ Increasing(Times(doc.hourly))
    /\ Increasing(Times(doc.daily))

\* C10: in the document NOAAWeatherAPI.get returns, in the document
\* ClimacellWeatherAPI.get returns after its merge and padding, in every
\* document answered with status 200 and in the cached copy, hourly.data and
\* daily.data, when present, have strictly increasing time values.
C10_TimesIncrease ==
    /\ Truthy(noaa_output) => SeriesIncreasing(noaa_output)
    /\ Truthy(output) => SeriesIncreasing(output)
    /\ response.status = 200 => SeriesIncreasing(response.body)
    /\ cache.exists => SeriesIncreasing(cache.content)

C10_Witness ==
    /\ Answered
    /\ response.status = 200
    /\ cc_ret = "doc"
    /\ Len(Times(noaa_output.daily)) < MIN_DAYS
    /\ Len(Times(response.body.daily)) = MIN_DAYS
    /\ Len(Times(response.body.hourly)) >= 2

\* ClimacellWeatherAPI.get has rebuilt the document of this request
Enriched == cc_ret = "doc" /\ cc_failed = "none" /\ pc \in {"respond", "idle"}

\* C11: when ClimacellWeatherAPI.get has rebuilt the document, daily.data has
\* at least 8 entries: the entries of the skeleton it received keep their
\* times, the entries appended to a shorter skeleton continue from the last of
\* them in steps of 86400 s, and every entry, appended ones included, holds
\* the values of a Climacell day.
C11_AtLeastEightDays ==
    Enriched =>
        LET skeleton == Times(noaa_output.daily)
            data == output.daily.data
        IN  /\ Len(data) >= MIN_DAYS
            /\ Len(data) = IF Len(skeleton) < MIN_DAYS THEN MIN_DAYS ELSE Len(skeleton)
            /\ \A i \in 1..Len(skeleton) : data[i].time = skeleton[i]
            /\ \A i \in (Len(skeleton) + 1)..Len(data) :
                  data[i].time = skeleton[Len(skeleton)] + ((i - Len(skeleton)) * DAY)
            /\ \A i \in 1..Len(data) :
                  /\ data[i].summary = "Clear"
                  /\ data[i].icon = "clear-day"
                  /\ data[i].temperatureHigh = CCTempMax

C11_Witness ==
    /\ Enriched
    /\ Answered
    /\ Len(Times(noaa_output.daily)) = 1
    /\ Len(response.body.daily.data) = MIN_DAYS
    /\ response.body.daily.data[MIN_DAYS].time = noaa_output.daily.data[1].time + (7 * DAY)
    /\ response.body.daily.data[MIN_DAYS].summary = "Clear"

\* the fields of an hourly or daily entry that hold a value, not None
GenuineField(entry, key) ==
    /\ key \in DOMAIN entry
    /\ CASE key \in {"temperature", "temperatureHigh", "dewpoint", "humdity"} ->
                entry[key].t # "null"
         [] key \in {"time", "sunriseTime"} -> TRUE
         [] OTHER -> entry[key] # "None"

FieldsKept(before, after) ==
    \A i \in 1..Len(before) : \A key \in DOMAIN before[i] :
        GenuineField(before[i], key) => GenuineField(after[i], key)

\* C12 (as stated): when ClimacellWeatherAPI.get has rebuilt the document,
\* every field of an entry of hourly.data or daily.data that held a value in
\* the document of NOAAWeatherAPI.get still holds a value.
C12_PopulatedFieldsKept ==
    Enriched =>
        /\ FieldsKept(SectionData(noaa_output, "hourly"), SectionData(output, "hourly"))
        /\ FieldsKept(SectionData(noaa_output, "daily"), SectionData(output, "daily"))

\* the four fields of a day that ClimacellWeatherAPI.get takes from its input
CarriedFields == {"windSpeed", "windBearing", "cloudCover", "visibility"}

\* ClimacellWeatherAPI.get has been called on a document; all four fetches
\* succeeded, and the call completes when the days carry wind_speed
CompletesWithWindSpeed ==
    /\ cc_res # NoRun
    /\ Truthy(cc_res.input)
    /\ CCGet(Num(LAT_MIN), Num(LON_MIN), cc_res.input,
             [cc_res.cc EXCEPT !.feeds.wind_speed = TRUE]).ret = "doc"
    /\ cc_res.first.failed = "none"

\* C13 (as stated): when the days of Climacell's daily forecast have no wind
\* speed field, the call returns a document in which windSpeed, windBearing,
\* cloudCover and visibility of every day of the input are the input's values.
C13_PrimaryWindKept ==
    (CompletesWithWindSpeed /\ ~ cc_res.cc.feeds.wind_speed) =>
        /\ cc_res.first.ret = "doc"
        /\ \A i \in 1..Len(SectionData(cc_res.input, "daily")) : \A key \in CarriedFields :
              cc_res.first.doc.daily.data[i][key] = cc_res.input.daily.data[i][key]

\* both calls of ClimacellWeatherAPI.get have rebuilt the document
CalledTwice ==
    /\ cc_res # NoRun
    /\ cc_res.first.ret = "doc" /\ cc_res.first.failed = "none"
    /\ cc_res.second.ret = "doc" /\ cc_res.second.failed = "none"

\* C14: a call of ClimacellWeatherAPI.get on a document that holds minute data
\* returns a document with the same minutely.data; the nowcast is stored only
\* when the input holds no minute data.
C14_MinutelyKept ==
    /\ CalledTwice => cc_res.second.doc.minutely.data = cc_res.first.doc.minutely.data
    /\ (cc_res # NoRun /\ cc_res.first.ret = "doc" /\ cc_res.first.failed = "none") =>
          cc_res.first.doc.minutely.data = << [time |-> Now + (60 * cc_res.cc.feeds.minute)] >>

C14_Witness ==
    /\ CalledTwice
    /\ cc_res.again.feeds.minute # cc_res.cc.feeds.minute
    /\ cc_res.second.doc.minutely.data = << [time |-> Now + 60] >>

\* the number of times a name occurs in a list of sources
Occurrences(items, name) == Cardinality({ i \in 1..Len(items) : items[i] = name })

\* C15 (as stated): flags.sources of a document that ClimacellWeatherAPI.get
\* has rebuilt lists noaa and then climacell, each once, also when the call is
\* made on a document that already lists climacell.
C15_SourcesOnce ==
    /\ (cc_res # NoRun /\ cc_res.first.ret = "doc" /\ cc_res.first.failed = "none") =>
          cc_res.first.doc.flags.sources.items = << "noaa", "climacell" >>
    /\ CalledTwice =>
          /\ Occurrences(cc_res.second.doc.flags.sources.items, "climacell") = 1
          /\ cc_res.second.doc.flags.sources.items = << "noaa", "climacell" >>

\* C16 (as stated): in the document NOAAWeatherAPI.get assembles, the
\* temperature of currently, of every hour and of every day is the upstream
\* reading c in degrees Celsius converted as c * 9 / 5 + 32; a reading of
\* 0 degrees Celsius gives 32.
C16_CelsiusToFahrenheit ==
    noaa_res.ret = "doc" =>
        LET fahrenheit == JInt(((noaa_up.feeds.celsius * 9) \div 5) + 32)
        IN  /\ noaa_res.doc.currently.temperature = fahrenheit
            /\ \A i \in 1..Len(SectionData(noaa_res.doc, "hourly")) :
                  noaa_res.doc.hourly.data[i].temperature = fahrenheit
            /\ \A i \in 1..Len(SectionData(noaa_res.doc, "daily")) :
                  noaa_res.doc.daily.data[i].temperatureHigh = fahrenheit
            /\ noaa_up.feeds.celsius = 0 => noaa_res.doc.currently.temperature = JInt(32)

\* ClimacellWeatherAPI.get has been called on a document; all four fetches
\* succeeded, and the call completes when the weather code is a listed one
CompletesWithListedCode ==
    /\ cc_res # NoRun
    /\ Truthy(cc_res.input)
    /\ CCGet(Num(LAT_MIN), Num(LON_MIN), cc_res.input,
             [cc_res.cc EXCEPT !.feeds.code = "clear"]).ret = "doc"
    /\ cc_res.first.failed = "none"

\* C17 (as stated): when the weather code of Climacell's samples is not in the
\* tables of the mappers, the call still returns a document, in which the
\* summary and the icon mapped from that code are the empty string.
C17_UnknownCodeIsEmpty ==
    (CompletesWithListedCode /\ cc_res.cc.feeds.code = "unlisted") =>
        /\ cc_res.first.ret = "doc"
        /\ cc_res.first.doc.currently.summary = ""
        /\ \A i \in 1..Len(cc_res.first.doc.daily.data) :
              /\ cc_res.first.doc.daily.data[i].summary = ""
              /\ cc_res.first.doc.daily.data[i].icon = ""

\* the value at the end of a key path, and None when a step cannot be taken: a
\* field name that the container does not hold, an index outside 0 .. len - 1,
\* or a step into a value that is not a container of the key's kind
RECURSIVE ValueAt(_, _)
ValueAt(root, key_list) ==
    IF key_list = << >> THEN root
    ELSE LET key == Head(key_list)
         IN  IF key.int
             THEN IF root.t = "list" /\ key.i >= 0 /\ key.i < Len(root.items)
                  THEN ValueAt(root.items[key.i + 1], Tail(key_list))
                  ELSE JNone
             ELSE IF root.t = "dict" /\ key.s \in DOMAIN root.m
                  THEN ValueAt(root.m[key.s], Tail(key_list))
                  ELSE JNone

\* C18 (as stated): getKeyValue never raises, and returns the value at the end
\* of the key path, or None when the walk is aborted.
C18_NeverRaises ==
    kv_call # NoRun =>
        /\ ~ kv_call.result.raised
        /\ kv_call.result.value = ValueAt(kv_call.dictionary_element, kv_call.key_list)

\* the document NOAAWeatherAPI.get assembles when the alerts fetch and the two
\* area-name lookups succeed
WithAreaNames(up) ==
    NOAAAssemble(Num(LAT_MIN), Num(LON_MIN),
                 [up EXCEPT !.feeds.alerts = "ok", !.feeds.counties = "ok", !.feeds.zones = "ok"])

\* C19 (as stated): when the points lookup, the stations lookup and the four
\* mandatory fetches succeed, NOAAWeatherAPI.get returns a document whatever
\* the outcome of the alerts fetch and of the county and zone lookups, and its
\* currently, hourly and daily sections are those assembled when the three
\* succeed.
C19_OnlyAlertsDegrade ==
    (noaa_res # NoRun /\ noaa_res.failed = "none") =>
        /\ noaa_res.ret = "doc"
        /\ noaa_res.doc.currently = WithAreaNames(noaa_up).currently
        /\ noaa_res.doc.hourly = WithAreaNames(noaa_up).hourly
        /\ noaa_res.doc.daily = WithAreaNames(noaa_up).daily

\* the chunks are those of one whole document
Complete(chunks) == \E w \in Writers, n \in 1..MaxChunks : chunks = DocOf(w, n)

\* C20 (as stated): once the two requests have written and closed the file,
\* the cached copy is the whole document of the request that finished writing
\* last, and the request on the fallback path has read a whole document.
C20_LastWriterWins ==
    /\ (\A w \in Writers : writer[w].pc = "closed") =>
          file.chunks = DocOf(closed[Len(closed)], writer[closed[Len(closed)]].doc)
    /\ reader # NoRun => Complete(reader.content)

\* C21: once control has left the with block of an adapter (get() returns,
\* early or not, or goes on to assemble the document), none of the fetches it
\* submitted is still running
C21_FanOutJoined ==
    fan.pc = "left" => \A b \in DOMAIN fan.status : fan.status[b] # "running"

\* the adapter has returned early, on the failure of its first fetch, and the
\* fetches submitted after it have ended
C21_Witness ==
    /\ fan.pc = "left"
    /\ fan.ret = "unavailable"
    /\ fan.pos = 1
    /\ fan.adapter = "noaa"
    /\ fan.status[Len(Futures("noaa"))] = "ok"

\* the samples whose interval [start, end) contains a time, by position
Containing(samples, time) ==
    { j \in 1..Len(samples) : samples[j].start <= time /\ time < samples[j].end }

Last(S) == CHOOSE j \in S : \A k \in S : k <= j

\* slot by slot: the length and the times are kept, the slot carries the key
\* if and only if a sample contains its time, and then with the value of the
\* last such sample
OverlaidByLast(before, after, samples, key) ==
    /\ Len(after) = Len(before)
    /\ \A i \in 1..Len(before) :
          LET inside == Containing(samples, before[i].time)
          IN  /\ after[i].time = before[i].time
              /\ (key \in DOMAIN after[i]) <=> (inside # {})
              /\ inside # {} => after[i][key] = GridValue(key, samples[Last(inside)])

\* the larger of two intensities
Larger(a, b) == IF b.n > a.n THEN b ELSE a

\* slot by slot: the slot carries precipIntensity if and only if an amount of
\* precipitation or of snowfall contains its time, and then the largest of the
\* intensity of the last such amount of precipitation and the intensities of
\* such amounts of snowfall
OverlaidByLargest(before, after, quantities, snowamounts) ==
    /\ Len(after) = Len(before)
    /\ \A i \in 1..Len(before) :
          LET rain == Containing(quantities, before[i].time)
              snow == Containing(snowamounts, before[i].time)
              rates == (IF rain = {} THEN {}
                        ELSE { GridValue("precipIntensity", quantities[Last(rain)]) })
                       \cup { GridValue("precipIntensity", snowamounts[j]) : j \in snow }
          IN  /\ after[i].time = before[i].time
              /\ ("precipIntensity" \in DOMAIN after[i]) <=> (rates # {})
              /\ rates # {} =>
                    /\ after[i].precipIntensity \in rates
                    /\ \A r \in rates : r.n <= after[i].precipIntensity.n

\* C22 as stated: for every grid quantity, a slot carries the value of the last
\* interval of the quantity that contains its time, and no value when none
\* does; for precipIntensity the intervals are those of the amounts of
\* precipitation followed by those of the amounts of snowfall
C22_LastIntervalWins ==
    step # NoRun /\ step.op \in {"overlay", "snow"} =>
        OverlaidByLast(step.hourly_data, step.result, step.samples \o step.snowamounts, step.key)

\* C22 (amended): a quantity written by assignment gives every slot the value
\* of the last interval that contains its time, and no value when none does,
\* the early exit skipping no slot inside an interval; precipIntensity is the
\* largest of the last amount of precipitation and the amounts of snowfall
\* whose intervals contain the slot
C22_OverlayByQuantity ==
    /\ step # NoRun /\ step.op = "overlay" =>
          OverlaidByLast(step.hourly_data, step.result, step.samples, step.key)
    /\ step # NoRun /\ step.op = "snow" =>
          OverlaidByLargest(step.hourly_data, step.result, step.samples, step.snowamounts)

\* two intervals contain the second slot, the scan of the first interval ends
\* early at the last slot, and the second slot carries the value of the
\* second interval
C22_Witness ==
    /\ step # NoRun /\ step.op = "overlay"
    /\ Len(step.hourly_data) = 3 /\ Len(step.samples) = 2
    /\ Containing(step.samples, step.hourly_data[2].time) = {1, 2}
    /\ step.hourly_data[3].time > step.samples[1].end
    /\ step.samples[1].value # step.samples[2].value
    /\ step.result[2].temperature = GridValue("temperature", step.samples[2])

\* the samples of the day that starts at start: not null, with a start time in
\* [start, start + 24h)
OfTheDay(values, start) ==
    { j \in 1..Len(values) :
        /\ values[j].value # JNone
        /\ values[j].time >= start
        /\ values[j].time < start + DAY }

\* C23: the high of the day is the largest and the low the smallest converted
\* temperature sample of the day, each with the time of a sample that attains
\* it, also when a sample converts to 0
C23_DailyExtremes ==
    step # NoRun /\ step.op = "temps" =>
        LET day == OfTheDay(step.values, step.start)
            temp(j) == CtoF100(step.values[j].value)
        IN  day # {} =>
              /\ \A j \in day : temp(j).n <= step.result.temperatureHigh.n
              /\ \A j \in day : temp(j).n >= step.result.temperatureLow.n
              /\ \E j \in day : /\ temp(j) = step.result.temperatureHigh
                                /\ JInt(step.values[j].time) = step.result.temperatureHighTime
              /\ \E j \in day : /\ temp(j) = step.result.temperatureLow
                                /\ JInt(step.values[j].time) = step.result.temperatureLowTime
              /\ step.result.temperatureMax = step.result.temperatureHigh
              /\ step.result.temperatureMin = step.result.temperatureLow

\* the hours an interval shares with the day that starts at start
Overlap(interval, start) ==
    LET a == IF interval.start < start THEN start ELSE interval.start
        b == IF interval.end > start + DAY THEN start + DAY ELSE interval.end
    IN  IF b > a THEN (b - a) \div HOUR ELSE 0

\* the sums of value * overlap and of overlap over the samples that are not null
RECURSIVE Weighted(_, _)
Weighted(values, start) ==
    IF values = << >> THEN [value |-> 0, overlap |-> 0]
    ELSE LET rest == Weighted(Tail(values), start)
             hours == Overlap(Head(values), start)
         IN  IF Head(values).value = JNone THEN rest
             ELSE [value |-> rest.value + (Head(values).value.n * hours),
                   overlap |-> rest.overlap + hours]

\* C24: the daily value of an averaged quantity is sum(value * overlap) /
\* sum(overlap) over its samples that are not null, in the units of the
\* document, and there is no daily value when no such sample overlaps the day
C24_TimeWeightedAverage ==
    step # NoRun /\ step.op = "average" =>
        LET sums == Weighted(step.values, step.start)
        IN  step.result = IF sums.overlap > 0
                          THEN DayUnits(step.key, sums.value, sums.overlap)
                          ELSE JNone

\* C25: for a list of one element with the min and one with the max, in either
\* order, the daily humidity and pressure are (min + max) / 2
C25_MinMaxAverage ==
    step # NoRun /\ step.op = "minmax" =>
        \A i, j \in 1..Len(step.samples) :
            /\ Len(step.samples) = 2 /\ i # j
            /\ DOMAIN step.samples[i] = {"min"} /\ DOMAIN step.samples[j] = {"max"}
            => step.result = JInt(PyRound((step.samples[i]["min"] + step.samples[j]["max"]) * 100, 2))

\* ClimacellWeatherAPI.get has been called on a document, all four fetches
\* succeeded and the call has returned the rebuilt document
Rebuilt ==
    /\ cc_res # NoRun
    /\ Truthy(cc_res.input)
    /\ cc_res.first.ret = "doc" /\ cc_res.first.failed = "none"

\* C26 (as stated): a call on a document without hourly skeleton returns a
\* document whose hourly.data is not empty, holds consecutive hours and
\* carries Climacell's values for them
C26_SkeletonSynthesized ==
    (Rebuilt /\ SectionData(cc_res.input, "hourly") = << >>) =>
        LET data == SectionData(cc_res.first.doc, "hourly")
        IN  /\ Len(data) > 0
            /\ \A i \in 1..(Len(data) - 1) : data[i + 1].time = data[i].time + HOUR
            /\ \A i \in 1..Len(data) : data[i].temperature = CCTemp

\* the call with the same input and the same answers of Climacell, except that
\* the hourly forecast has the largest number of hours
WithLongHourly == [cc_res.cc EXCEPT !.feeds.nHours = MaxHours + 1]

\* C27 (as stated): the hourly merge keeps the length of hourly.data and the
\* time of every slot, it rebuilds slot i from Climacell's i-th hour exactly
\* when the two timestamps are equal and leaves it as it was otherwise, and a
\* call that completes on a long hourly forecast completes on a shorter one
C27_HourlyMergeFrame ==
    /\ Rebuilt =>
          LET before == SectionData(cc_res.input, "hourly")
              after == SectionData(cc_res.first.doc, "hourly")
              cc_hourly_obj == CCHourly(cc_res.cc.feeds.nHours, cc_res.cc.feeds.firstHour,
                                        cc_res.cc.feeds.code)
          IN  /\ Len(after) = Len(before)
              /\ \A i \in 1..Len(before) :
                    /\ after[i].time = before[i].time
                    /\ IF cc_hourly_obj[i].time = before[i].time
                       THEN after[i].summary = "Clear" /\ after[i].temperature = CCTemp
                       ELSE after[i] = before[i]
    /\ (cc_res # NoRun /\ Truthy(cc_res.input)
        /\ CCGet(Num(LAT_MIN), Num(LON_MIN), cc_res.input, WithLongHourly).ret = "doc") =>
          cc_res.first.ret = "doc"

\* the call is made on a document with a daily skeleton, all four fetches
\* succeeded, the codes are listed, the days carry wind_speed and the hourly
\* forecast is as long as the hourly skeleton
DailyMergeReached ==
    /\ cc_res # NoRun
    /\ Truthy(cc_res.input)
    /\ cc_res.first.failed = "none"
    /\ SectionData(cc_res.input, "daily") # << >>
    /\ cc_res.cc.feeds.code = "clear"
    /\ cc_res.cc.feeds.wind_speed
    /\ cc_res.cc.feeds.nHours >= Len(SectionData(cc_res.input, "hourly"))

\* C28 (as stated): the daily merge completes for every daily forecast of
\* Climacell, and every entry of daily.data holds the values of Climacell's
\* sample of the same calendar day (sunriseTime is the sunrise of the sample)
C28_DailyAligned ==
    DailyMergeReached =>
        /\ cc_res.first.ret = "doc"
        /\ \A i \in 1..Len(SectionData(cc_res.first.doc, "daily")) :
              LET entry == cc_res.first.doc.daily.data[i]
              IN  entry.sunriseTime \div DAY = entry.time \div DAY

\* C29 (as stated): a document sent with status 200 carries the latitude and
\* the longitude of the request it answers, whether it was assembled for the
\* request or read from the cached copy
C29_CoordinatesOfRequest ==
    response.status = 200 =>
        /\ response.body.latitude = request.latitude
        /\ response.body.longitude = request.longitude

\* the names under which the current observations of NOAAWeatherAPI.get and
\* the hours of ClimacellWeatherAPI.get carry the dew point and the humidity
SharedNames == {"dewPoint", "humidity"}

\* C30 (as stated): in a document of NOAAWeatherAPI.get the hours covered by
\* the gridpoint forecast carry the dew point and the humidity under the names
\* that currently uses
C30_SameFieldNames ==
    (noaa_res # NoRun /\ noaa_res.ret = "doc") =>
        /\ SharedNames \subseteq DOMAIN noaa_res.doc.currently
        /\ \A i \in 1..Len(SectionData(noaa_res.doc, "hourly")) :
              SharedNames \subseteq DOMAIN noaa_res.doc.hourly.data[i]

====
